---- MODULE Spec2Model ----
(***************************************************************************)
(* Deletion synchronisation between a media server and two catalogs        *)
(* (python/jellyfin-delete-sync/jellyfin-delete-sync.py).                  *)
(*                                                                         *)
(* State: the series catalog (Sonarr) and the movie catalog (Radarr) as    *)
(* the script sees them through their REST API, the sqlite store           *)
(* (episode_map.db) with the rebuild's open transaction, and the position  *)
(* of each /jellyfin request handler.  Every network call of a handler or  *)
(* of the rebuild is one step, and answers with one of three outcomes:     *)
(* "ok" (2xx, the effect applied), "error" (a non-2xx response, no         *)
(* effect), "raise" (requests raises a transport error, no effect).        *)
(***************************************************************************)
EXTENDS Integers, Sequences, FiniteSets, TLC

VARIABLES
    cfg,      \* SERIES_DELETION_MODE, SEASON_DELETION_MODE (config.py)
    sonarr,   \* series catalog: series, seasons, episodes, episode files
    radarr,   \* movie catalog: the movies present
    db,       \* committed contents of episode_map.db
    rb,       \* build_provider_map: position, open transaction, what it fetched
    req,      \* jellyfin_webhook: one record per request handler
    ops,      \* number of operations (requests, rebuilds) started so far
    hook,     \* sonarr_webhook: the request being handled and its response
    boot,     \* start of the process: refresh settings, scheduler jobs, position
    rb2,      \* build_provider_map run by a second scheduler job
    repair    \* json_repair: the raw body, the repaired lines, the text returned

vars == <<cfg, sonarr, radarr, db, rb, req, ops, hook, boot, rb2, repair>>

(***************************************************************************)
(* Bounds                                                                  *)
(***************************************************************************)
\* operations (webhook requests and rebuilds) started in one behaviour
MaxOps == 2

\* characters of a raw request body given to json_repair
MaxLen == 5

Handlers == {1}
Outcomes == {"ok", "error", "raise"}
Modes == {1, 2, 3}

(***************************************************************************)
(* json_repair, on texts as sequences of characters.  The characters are   *)
(* those its tests and patterns tell apart: the comma, the closing brace   *)
(* and bracket, the colon, the quote, a blank and a line feed (white       *)
(* space), and a digit (a word character that ends a value).               *)
(***************************************************************************)
\* the raw bodies of at most MaxLen characters
Bodies ==
    LET BodyChars == {",", "}", "]", ":", "\"", " ", "\n", "1"}
    IN  UNION {[1..n -> BodyChars] : n \in 0..MaxLen}

RECURSIVE SkipSpace(_, _)
\* \s* from position i, and the white space str.strip removes: the position
\* of the first character that is not white space
SkipSpace(t, i) ==
    IF i <= Len(t) /\ t[i] \in {" ", "\n"} THEN SkipSpace(t, i + 1) ELSE i

RECURSIVE SplitLines(_)
\* str.splitlines(): the pieces between line feeds, without a last empty one
SplitLines(t) ==
    IF t = << >> THEN << >>
    ELSE LET feeds == {i \in 1..Len(t) : t[i] = "\n"}
             n == IF feeds = {} THEN Len(t) + 1
                  ELSE CHOOSE i \in feeds : \A j \in feeds : i <= j
         IN  <<SubSeq(t, 1, n - 1)>> \o SplitLines(SubSeq(t, n + 1, Len(t)))

\* SubEmptyValue leaving the line as it is
KeepEmptyValue(t, i) == SubSeq(t, i, Len(t))

RECURSIVE SubEmptyValue(_, _)
\* re.sub(r':\s*,', ': null,', line), from position i
SubEmptyValue(t, i) ==
    IF i > Len(t) THEN << >>
    ELSE LET j == SkipSpace(t, i + 1)
         IN  IF t[i] = ":" /\ j <= Len(t) /\ t[j] = ","
             THEN <<":", " ", "n", "u", "l", "l", ",">> \o SubEmptyValue(t, j + 1)
             ELSE <<t[i]>> \o SubEmptyValue(t, i + 1)

\* re.sub(r',\s*"[\w]+":\s*$', '', line) when comma is true,
\* re.sub(r'\s*"[\w]+":\s*$', '', line) when it is false: the line up to
\* the leftmost position from which the pattern matches to the end of the
\* line, the whole line if there is none
DropKey(t, comma) ==
    LET \* [\w], on the characters of a body and of 'null'
        IsWord(c) == c \in {"1", "n", "u", "l"}
        \* [\w]* from position i
        RECURSIVE SkipWord(_)
        SkipWord(i) == IF i <= Len(t) /\ IsWord(t[i]) THEN SkipWord(i + 1) ELSE i
        \* "[\w]+":\s*$ matches from position i
        KeyToEnd(i) ==
            /\ i <= Len(t) /\ t[i] = "\""
            /\ LET w == SkipWord(i + 1)
               IN  /\ w > i + 1
                   /\ w + 1 <= Len(t)
                   /\ t[w] = "\"" /\ t[w + 1] = ":"
                   /\ SkipSpace(t, w + 2) > Len(t)
        hits == IF comma
                THEN {i \in 1..Len(t) : t[i] = "," /\ KeyToEnd(SkipSpace(t, i + 1))}
                ELSE {i \in 1..Len(t) : KeyToEnd(SkipSpace(t, i))}
    IN  IF hits = {} THEN t
        ELSE SubSeq(t, 1, (CHOOSE i \in hits : \A j \in hits : i <= j) - 1)

RECURSIVE RepairLines(_, _, _)
\* the loop over the lines: out is repaired_lines, lastWasValue is
\* last_was_value
RepairLines(ls, out, lastWasValue) ==
    IF ls = << >> THEN out
    ELSE LET line == Head(ls)
             \* str.rstrip(): the position of the last character of t up to i
             \* that is not white space
             RECURSIVE LastNonSpace(_, _)
             LastNonSpace(t, i) ==
                 IF i >= 1 /\ t[i] \in {" ", "\n"} THEN LastNonSpace(t, i - 1) ELSE i
             \* stripped = line.strip()
             stripped == SubSeq(line, SkipSpace(line, 1), LastNonSpace(line, Len(line)))
         IN  IF stripped = << >> THEN RepairLines(Tail(ls), out, lastWasValue)
             ELSE LET startsKey == /\ stripped[1] = "\""
                                   /\ \E i \in 1..Len(stripped) : stripped[i] = ":"
                      \* repaired_lines[-1] = repaired_lines[-1].rstrip() + ','
                      out1 == IF lastWasValue /\ startsKey /\ out # << >>
                              THEN [out EXCEPT ![Len(out)] =
                                      SubSeq(@, 1, LastNonSpace(@, Len(@))) \o <<",">>]
                              ELSE out
                      fixed == DropKey(DropKey(SubEmptyValue(line, 1), TRUE), FALSE)
                      \* last_char in ('"', '}', ']', 'l', 'e') or last_char.isdigit()
                      endsValue == stripped[Len(stripped)]
                                      \in {"\"", "}", "]", "l", "e", "1"}
                  IN  RepairLines(Tail(ls), Append(out1, fixed), endsValue)

\* json_repair has not been called
NoRepair == [pc |-> "none", raw |-> << >>, lines |-> << >>, text |-> << >>]

\* json_repair(raw_body)
JsonRepair(raw) ==
    LET ls == RepairLines(SplitLines(raw), << >>, FALSE)
        \* '\n'.join(repaired_lines)
        RECURSIVE JoinLines(_)
        JoinLines(k) ==
            IF k > Len(ls) THEN << >>
            ELSE IF k = Len(ls) THEN ls[k]
            ELSE ls[k] \o <<"\n">> \o JoinLines(k + 1)
        \* re.sub(r',\s*}', '}', repaired) and re.sub(r',\s*]', ']', repaired),
        \* from position i of t, close being the closing character
        RECURSIVE SubCommaClose(_, _, _)
        SubCommaClose(u, i, close) ==
            IF i > Len(u) THEN << >>
            ELSE LET j == SkipSpace(u, i + 1)
                 IN  IF u[i] = "," /\ j <= Len(u) /\ u[j] = close
                     THEN <<close>> \o SubCommaClose(u, j + 1, close)
                     ELSE <<u[i]>> \o SubCommaClose(u, i + 1, close)
        t == SubCommaClose(SubCommaClose(JoinLines(1), 1, "}"), 1, "]")
        \* if not repaired.endswith('}'): repaired += '}'
        text == IF t # << >> /\ t[Len(t)] = "}" THEN t ELSE Append(t, "}")
    IN  [pc |-> "returned", raw |-> raw, lines |-> ls, text |-> text]

\* json_repair is called with the body in repair.raw and returns
JsonRepairCall ==
    /\ repair.pc = "called"
    /\ repair' = JsonRepair(repair.raw)
    /\ UNCHANGED <<cfg, sonarr, radarr, db, rb, req, ops, hook, boot, rb2>>

\* the caller has taken the text returned
JsonRepairDone ==
    /\ repair.pc = "returned"
    /\ repair' = [NoRepair EXCEPT !.pc = "taken"]
    /\ UNCHANGED <<cfg, sonarr, radarr, db, rb, req, ops, hook, boot, rb2>>

(***************************************************************************)
(* The catalogs' content: two series and one movie.  Identity, titles and  *)
(* provider ids of the entries are fixed; existence, monitoring and files  *)
(* change.  Episodes 3 and 4 (of different series) carry the same provider *)
(* id, episode 2 carries none.                                             *)
(***************************************************************************)
SeriesIds == {1, 2}
SeriesTitle == [s \in SeriesIds |-> IF s = 1 THEN "Show A" ELSE "Show B"]
SeriesTvdb == [s \in SeriesIds |-> IF s = 1 THEN 71 ELSE 72]
SeasonsOf == [s \in SeriesIds |-> IF s = 1 THEN {1, 2} ELSE {1}]
SeasonKeys == {<<s, n>> : s \in SeriesIds, n \in {1, 2}} \ {<<2, 2>>}

EpisodeIds == {1, 2, 3, 4, 5}
EpSeries == [e \in EpisodeIds |-> IF e <= 3 THEN 1 ELSE 2]
EpSeason == [e \in EpisodeIds |-> IF e = 3 THEN 2 ELSE 1]
EpNumber == [e \in EpisodeIds |-> IF e \in {2, 5} THEN 2 ELSE 1]
EpTvdb == [e \in EpisodeIds |->
             CASE e = 1 -> 11 [] e = 2 -> 0 [] e = 3 -> 12 [] e = 4 -> 12 [] e = 5 -> 13]
\* the episode file of episode e
FileOf(e) == 100 + e
EpisodeOfFile(f) == f - 100

MovieIds == {1}
MovieTitle == [m \in MovieIds |-> "Film A"]
MovieTmdb == [m \in MovieIds |-> 501]

(***************************************************************************)
(* Text conversions                                                        *)
(***************************************************************************)
Digit == <<"0", "1", "2", "3", "4", "5", "6", "7", "8", "9">>

RECURSIVE Str(_)
\* str(n) of a non-negative integer
Str(n) == IF n < 10 THEN Digit[n + 1] ELSE Str(n \div 10) \o Digit[(n % 10) + 1]

\* str.lower() on the titles that occur
Lower(t) ==
    CASE t \in {"Show A", "show a"} -> "show a"
      [] t \in {"SHOW B", "Show B", "show b"} -> "show b"
      [] t \in {"Gone", "gone"} -> "gone"
      [] t \in {"Pilot", "pilot"} -> "pilot"
      [] t \in {"Season 1", "season 1"} -> "season 1"
      [] t \in {"Unknown", "unknown"} -> "unknown"
      [] OTHER -> t

(***************************************************************************)
(* The catalogs' REST API, as the script uses it: what a GET answers with  *)
(* status 200, and what a successful PUT or DELETE does to the catalog.    *)
(***************************************************************************)
RECURSIVE Ascending(_)
\* the members of a set of integers as a list, smallest first
Ascending(S) ==
    IF S = {} THEN << >>
    ELSE LET m == CHOOSE x \in S : \A y \in S : x <= y
         IN  <<m>> \o Ascending(S \ {m})

\* "no series": the value of a lookup that found nothing
NoSeries == [id |-> 0, title |-> "", tvdbId |-> 0, ended |-> FALSE, seasons |-> << >>]
\* "no episode"
NoEpisode == [id |-> 0, seriesId |-> 0, seasonNumber |-> 0, episodeNumber |-> 0,
              tvdbId |-> 0, monitored |-> FALSE, hasFile |-> FALSE, episodeFileId |-> 0]

\* the series resource: id, title, tvdbId, status, seasons[].monitored
SeriesJson(cat, s) ==
    [id |-> s, title |-> SeriesTitle[s], tvdbId |-> SeriesTvdb[s],
     ended |-> cat.ended[s],
     seasons |-> [n \in SeasonsOf[s] |-> cat.seasonMon[<<s, n>>]]]

\* the episode resource
EpisodeJson(cat, e) ==
    [id |-> e, seriesId |-> EpSeries[e], seasonNumber |-> EpSeason[e],
     episodeNumber |-> EpNumber[e], tvdbId |-> EpTvdb[e],
     monitored |-> cat.epMon[e], hasFile |-> cat.epFile[e],
     episodeFileId |-> IF cat.epFile[e] THEN FileOf(e) ELSE 0]

\* GET /api/v3/series
ApiSeriesList(cat) ==
    LET ids == Ascending(cat.series)
    IN  [i \in 1..Len(ids) |-> SeriesJson(cat, ids[i])]

\* GET /api/v3/series?tvdbId=t
ApiSeriesByTvdb(cat, t) ==
    LET Match(j) == Str(j.tvdbId) = t
    IN  SelectSeq(ApiSeriesList(cat), Match)

\* GET /api/v3/series/{id}: the series, or NoSeries for a 404
ApiSeriesById(cat, s) ==
    IF s \in cat.series THEN SeriesJson(cat, s) ELSE NoSeries

\* GET /api/v3/episode?seriesId=s
ApiEpisodes(cat, s) ==
    LET ids == Ascending({e \in EpisodeIds : EpSeries[e] = s /\ s \in cat.series})
    IN  [i \in 1..Len(ids) |-> EpisodeJson(cat, ids[i])]

\* GET /api/v3/episode?seriesId=s&seasonNumber=n
ApiEpisodesOfSeason(cat, s, n) ==
    LET InSeason(j) == j.seasonNumber = n
    IN  SelectSeq(ApiEpisodes(cat, s), InSeason)

\* GET /api/v3/episodefile?seriesId=s
ApiEpisodeFiles(cat, s) ==
    LET ids == Ascending({e \in EpisodeIds :
                            EpSeries[e] = s /\ s \in cat.series /\ cat.epFile[e]})
    IN  [i \in 1..Len(ids) |-> [id |-> FileOf(ids[i]), seasonNumber |-> EpSeason[ids[i]]]]

\* DELETE /api/v3/episodefile/{f}: the file goes, its episode has no file
ApiDeleteEpisodeFile(cat, f) ==
    LET e == EpisodeOfFile(f)
    IN  IF e \in EpisodeIds /\ cat.epFile[e]
        THEN [cat EXCEPT !.epFile[e] = FALSE]
        ELSE cat

\* DELETE /api/v3/series/{s}?deleteFiles=true: the series goes with its
\* seasons, episodes and files
ApiDeleteSeries(cat, s) ==
    IF s \notin cat.series THEN cat
    ELSE [series |-> cat.series \ {s},
          ended |-> [cat.ended EXCEPT ![s] = FALSE],
          seasonMon |-> [k \in SeasonKeys |-> IF k[1] = s THEN FALSE ELSE cat.seasonMon[k]],
          epMon |-> [e \in EpisodeIds |-> IF EpSeries[e] = s THEN FALSE ELSE cat.epMon[e]],
          epFile |-> [e \in EpisodeIds |-> IF EpSeries[e] = s THEN FALSE ELSE cat.epFile[e]]]

\* PUT /api/v3/series/{s} with the series resource j: the seasons' monitored
\* flags become those of j
ApiPutSeries(cat, s, j) ==
    IF s \notin cat.series THEN cat
    ELSE [cat EXCEPT !.seasonMon =
            [k \in SeasonKeys |->
                IF k[1] = s /\ k[2] \in DOMAIN j.seasons THEN j.seasons[k[2]] ELSE @[k]]]

\* PUT /api/v3/episode/{e} with the episode resource j
ApiPutEpisode(cat, e, j) ==
    IF e \in EpisodeIds /\ EpSeries[e] \in cat.series
    THEN [cat EXCEPT !.epMon[e] = j.monitored]
    ELSE cat

\* GET /api/v3/movie?tmdbId=t
ApiMoviesByTmdb(movies, t) ==
    LET ids == Ascending({m \in movies : Str(MovieTmdb[m]) = t})
    IN  [i \in 1..Len(ids) |-> [id |-> ids[i], title |-> MovieTitle[ids[i]],
                                tmdbId |-> MovieTmdb[ids[i]]]]

\* GET /api/v3/movie
ApiMovieList(movies) ==
    LET ids == Ascending(movies)
    IN  [i \in 1..Len(ids) |-> [id |-> ids[i], title |-> MovieTitle[ids[i]],
                                tmdbId |-> MovieTmdb[ids[i]]]]

\* DELETE /api/v3/movie/{m}?deleteFiles=true
ApiDeleteMovie(movies, m) == movies \ {m}

(***************************************************************************)
(* Notifications posted to /jellyfin.  body is what json.loads makes of    *)
(* the repaired request body: "blank" (empty or white space), "malformed"  *)
(* (still not JSON after json_repair), "json" (an object with the fields   *)
(* below).  An absent or null field is "" (text) or 0 (number).            *)
(***************************************************************************)
Note(body, ntype, kind, name, seriesName, season, episode, pids, tvdb, tmdb) ==
    [body |-> body, ntype |-> ntype, kind |-> kind, name |-> name,
     seriesName |-> seriesName, season |-> season, episode |-> episode,
     pids |-> pids, tvdb |-> tvdb, tmdb |-> tmdb]

Deleted(kind, name, seriesName, season, episode, tvdb, tmdb) ==
    Note("json", "ItemDeleted", kind, name, seriesName, season, episode, "map", tvdb, tmdb)

SeasonNotes ==
    { Deleted("Season", "Season 1", "show a", 1, 0, "", ""),
      Deleted("Season", "Season 1", "show a", 2, 0, "72", ""),
      Deleted("Season", "Season 1", "SHOW B", 1, 0, "", ""),
      Deleted("Season", "Season 1", "Gone", 1, 0, "", "") }

Notes ==
    LET MiscNotes ==
            { Note("blank", "", "", "", "", 0, 0, "map", "", ""),
              Note("malformed", "", "", "", "", 0, 0, "map", "", ""),
              Note("json", "PlaybackStart", "Episode", "Pilot", "show a", 1, 1, "map", "11", ""),
              Note("json", "ItemDeleted", "", "Unknown", "", 0, 0, "map", "", ""),
              Note("json", "ItemDeleted", "Audio", "Unknown", "", 0, 0, "map", "", ""),
              Note("json", "ItemDeleted", "Series", "show a", "", 0, 0, "null", "", "") }
        MovieNotes ==
            { Deleted("Movie", "Film A", "", 0, 0, "", t) : t \in {"", "501", "599"} }
        SeriesNotes ==
            { Deleted("Series", "show a", "", 0, 0, "71", ""),
              Deleted("Series", "show a", "", 0, 0, "", ""),
              Deleted("Series", "SHOW B", "", 0, 0, "79", ""),
              Deleted("Series", "Gone", "", 0, 0, "72", ""),
              Deleted("Series", "Gone", "", 0, 0, "", "") }
        EpisodeNotes ==
            { Deleted("Episode", "Pilot", "show a", 1, 1, "11", ""),
              Deleted("Episode", "Pilot", "show a", 1, 2, "", ""),
              Deleted("Episode", "Pilot", "show a", 2, 1, "12", ""),
              Deleted("Episode", "Pilot", "SHOW B", 1, 1, "12", ""),
              Deleted("Episode", "Pilot", "SHOW B", 1, 2, "13", ""),
              Deleted("Episode", "Pilot", "show a", 1, 3, "", ""),
              Deleted("Episode", "Pilot", "Gone", 1, 1, "11", ""),
              Deleted("Episode", "Pilot", "Gone", 1, 1, "19", "") }
    IN  MiscNotes \cup MovieNotes \cup SeriesNotes \cup SeasonNotes \cup EpisodeNotes

(***************************************************************************)
(* Connections to the store.  Every function opens its own connection     *)
(* (get_db_connection); sqlite3 begins a transaction at the first DELETE   *)
(* or INSERT of a connection and ends it at conn.commit() or conn.close(). *)
(***************************************************************************)
\* the rebuild b has executed its DELETEs and not yet committed or closed:
\* its connection holds sqlite's write lock
InTx(b) == b.pc \in {"fetch_series", "fetch_episodes", "fetch_movies"}

\* the rebuild whose connection holds the write lock, if one does
Writer == IF InTx(rb) THEN rb ELSE rb2

\* the number of the rebuild whose commit the store holds, when that
\* rebuild has not returned yet (0 otherwise)
LastCommit(store) ==
    LET b == IF store.writer = 1 THEN rb ELSE rb2
    IN  IF store.writer # 0 /\ b.pc = "done" /\ b.result = "committed"
        THEN b.opno ELSE 0

\* Visible with the pending writes of another connection readable
VisibleUncommitted(store, w) ==
    IF InTx(w) THEN w.tx.episode_map ELSE store.episode_map

\* episode_map as a SELECT of another connection reads it while the
\* connection of w is in a transaction: the committed rows
Visible(store, w) == store.episode_map

(***************************************************************************)
(* jellyfin_webhook                                                        *)
(***************************************************************************)
Call(m, r, id) == [m |-> m, r |-> r, id |-> id]

IdleReq ==
    LET NoCatalogs ==
            [sonarr |-> [series |-> {}, ended |-> [s \in SeriesIds |-> FALSE],
                         seasonMon |-> [k \in SeasonKeys |-> FALSE],
                         epMon |-> [e \in EpisodeIds |-> FALSE],
                         epFile |-> [e \in EpisodeIds |-> FALSE]],
             radarr |-> {}]
    IN  [pc |-> "idle", note |-> Note("blank", "", "", "", "", 0, 0, "map", "", ""),
         opno |-> 0, replay |-> FALSE, pre |-> NoCatalogs,
         series |-> NoSeries, mapped |-> 0, queue |-> << >>, target |-> NoEpisode,
         status |-> 0, calls |-> << >>, clean |-> TRUE,
         seen |-> << >>, during |-> 0, after |-> 0, viaMap |-> ""]

\* return <text>, status
Respond(r, status) ==
    [r EXCEPT !.pc = "done", !.status = status, !.queue = << >>]

\* one more request sent to a catalog, answered with outcome o
Sent(r, call, o) ==
    [r EXCEPT !.calls = Append(@, call), !.clean = @ /\ o = "ok"]

\* search_title = series_name if series_name else name
SearchTitle(note) == IF note.seriesName # "" THEN note.seriesName ELSE note.name

\* use_tvdb = tvdb_id if item_type == 'Series' else None
UseTvdb(note) == IF note.kind = "Series" THEN note.tvdb ELSE ""

\* the call of find_series(use_tvdb, search_title), up to its first request
FindSeriesStart(r) ==
    IF UseTvdb(r.note) # "" THEN [r EXCEPT !.pc = "find_tvdb"]
    ELSE IF SearchTitle(r.note) # "" THEN [r EXCEPT !.pc = "find_title"]
    ELSE Respond(r, 404)

\* UnmonitorSeason with the flag inverted instead of cleared, and the PUT
\* sent whatever the flag was
UnmonitorSeasonToggles(r) ==
    LET n == r.note.season
    IN  IF n \in DOMAIN r.series.seasons
        THEN [r EXCEPT !.series.seasons[n] = ~@, !.pc = "season_put"]
        ELSE Respond(r, 200)

\* for s in series['seasons']: if s['seasonNumber'] == season_num and
\* s['monitored']: s['monitored'] = False; PUT the series if one was changed
UnmonitorSeason(r) ==
    LET n == r.note.season
        updated == n \in DOMAIN r.series.seasons /\ r.series.seasons[n]
    IN  IF updated
        THEN [r EXCEPT !.series.seasons[n] = FALSE, !.pc = "season_put"]
        ELSE Respond(r, 200)

\* AfterFiles with the series removed in mode 1 too
AfterFilesRemovesInSafe(r, c) ==
    IF r.note.kind = "Series"
    THEN CASE c.series \in {1, 2} -> [r EXCEPT !.pc = "series_delete"]
           [] c.series = 3 -> [r EXCEPT !.pc = "check_get"]
    ELSE CASE c.season = 1 -> Respond(r, 200)
           [] c.season = 2 -> UnmonitorSeason(r)
           [] c.season = 3 -> [r EXCEPT !.pc = "check_get"]

\* AfterFiles with mode 2 stopping after the files, as mode 1 does
AfterFilesKeepsInAggressive(r, c) ==
    IF r.note.kind = "Series"
    THEN CASE c.series \in {1, 2} -> Respond(r, 200)
           [] c.series = 3 -> [r EXCEPT !.pc = "check_get"]
    ELSE CASE c.season = 1 -> Respond(r, 200)
           [] c.season = 2 -> UnmonitorSeason(r)
           [] c.season = 3 -> [r EXCEPT !.pc = "check_get"]

\* what follows the deletion of the episode files, by kind and deletion mode
AfterFiles(r, c) ==
    IF r.note.kind = "Series"
    THEN CASE c.series = 1 -> Respond(r, 200)
           [] c.series = 2 -> [r EXCEPT !.pc = "series_delete"]
           [] c.series = 3 -> [r EXCEPT !.pc = "check_get"]
    ELSE CASE c.season = 1 -> Respond(r, 200)
           [] c.season = 2 -> UnmonitorSeason(r)
           [] c.season = 3 -> [r EXCEPT !.pc = "check_get"]

\* the series is resolved: dispatch on the item type
Resolved(r, series) ==
    LET r1 == [r EXCEPT !.series = series]
    IN  IF r.note.kind \in {"Series", "Season"}
        THEN [r1 EXCEPT !.pc = "files_get"]
        ELSE [r1 EXCEPT !.pc = "episode_get"]

\* Dispatch with find_series called first for an Episode, whatever its
\* provider id
DispatchTitleFirst(r) ==
    LET n == r.note
    IN  IF n.body = "blank" THEN Respond(r, 400)
        ELSE IF n.body # "json" \/ n.ntype # "ItemDeleted" THEN Respond(r, 200)
        ELSE IF n.kind = "" THEN Respond(r, 200)
        ELSE IF n.pids = "null" THEN Respond(r, 200)
        ELSE IF n.kind = "Movie"
             THEN IF n.tmdb = "" THEN Respond(r, 400)
                  ELSE [r EXCEPT !.pc = "movie_get"]
        ELSE IF n.kind \in {"Series", "Season", "Episode"}
             THEN FindSeriesStart(r)
        ELSE Respond(r, 200)

\* Dispatch without the test of NotificationType
DispatchAnyType(r) ==
    LET n == r.note
    IN  IF n.body = "blank" THEN Respond(r, 400)
        ELSE IF n.body # "json" THEN Respond(r, 200)
        ELSE IF n.kind = "" THEN Respond(r, 200)
        ELSE IF n.pids = "null" THEN Respond(r, 200)
        ELSE IF n.kind = "Movie"
             THEN IF n.tmdb = "" THEN Respond(r, 400)
                  ELSE [r EXCEPT !.pc = "movie_get"]
        ELSE IF n.kind \in {"Series", "Season", "Episode"}
             THEN IF n.kind = "Episode" /\ n.tvdb # ""
                  THEN [r EXCEPT !.pc = "via_map_select"]
                  ELSE FindSeriesStart(r)
        ELSE Respond(r, 200)

\* the handler from the request body to its first catalog or store access
Dispatch(r) ==
    LET n == r.note
    IN  IF n.body = "blank" THEN Respond(r, 400)
        ELSE IF n.body # "json" \/ n.ntype # "ItemDeleted" THEN Respond(r, 200)
        ELSE IF n.kind = "" THEN Respond(r, 200)
        ELSE IF n.pids = "null" THEN Respond(r, 200)
        ELSE IF n.kind = "Movie"
             THEN IF n.tmdb = "" THEN Respond(r, 400)
                  ELSE [r EXCEPT !.pc = "movie_get"]
        ELSE IF n.kind \in {"Series", "Season", "Episode"}
             THEN IF n.kind = "Episode" /\ n.tvdb # ""
                  THEN [r EXCEPT !.pc = "via_map_select"]
                  ELSE FindSeriesStart(r)
        ELSE Respond(r, 200)

\* POST /jellyfin arrives: the handler runs up to its first request
Receive(h, note) ==
    /\ req[h].pc = "idle"
    /\ ops < MaxOps
    /\ ops' = ops + 1
    /\ LET r == [IdleReq EXCEPT
                   !.note = note, !.opno = ops + 1,
                   !.pre = [sonarr |-> sonarr, radarr |-> radarr]]
       IN  req' = [req EXCEPT ![h] = Dispatch(r)]
    /\ UNCHANGED <<repair, hook, boot, rb2, cfg, sonarr, radarr, db, rb>>

\* the sender posts the notification it has just been answered once more
\* (replay marks the second of two requests of which the first was answered
\* 200 after catalog calls that all succeeded)
Resend(h) ==
    /\ req[h].pc = "done"
    /\ ops < MaxOps
    /\ ops' = ops + 1
    /\ LET prev == req[h]
           r == [IdleReq EXCEPT
                   !.note = prev.note, !.opno = ops + 1,
                   !.pre = [sonarr |-> sonarr, radarr |-> radarr],
                   !.replay = prev.clean /\ prev.status = 200]
       IN  req' = [req EXCEPT ![h] = Dispatch(r)]
    /\ UNCHANGED <<repair, hook, boot, rb2, cfg, sonarr, radarr, db, rb>>

\* the response has been sent: the handler's locals are gone
Reply(h) ==
    /\ req[h].pc = "done"
    /\ req' = [req EXCEPT ![h] = IdleReq]
    /\ UNCHANGED <<repair, hook, boot, rb2, cfg, sonarr, radarr, db, rb, ops>>

\* SELECT series_id FROM episode_map WHERE episode_tvdb_id = key: the
\* series id of the row, 0 when there is no row
MapLookup(map, key) == IF key \in DOMAIN map THEN map[key] ELSE 0

\* ViaMapSelect with the failure of the store raised to the handler's
\* caller: the request is answered 500
ViaMapSelectUnguarded(h) ==
    /\ req[h].pc = "via_map_select"
    /\ \E dbOk \in BOOLEAN :
         LET w == Writer
             seen == IF dbOk THEN Visible(db, w) ELSE << >>
             r == [req[h] EXCEPT
                     !.clean = @ /\ dbOk, !.seen = seen,
                     !.during = IF dbOk /\ InTx(w) THEN w.opno ELSE 0,
                     !.after = IF dbOk /\ ~InTx(w) THEN LastCommit(db) ELSE 0]
             sid == MapLookup(seen, r.note.tvdb)
         IN  req' = [req EXCEPT ![h] =
                       IF ~dbOk THEN Respond(r, 500)
                       ELSE IF sid # 0
                       THEN [r EXCEPT !.mapped = sid, !.pc = "via_map_get"]
                       ELSE FindSeriesStart([r EXCEPT !.viaMap = "none"])]
    /\ UNCHANGED <<repair, hook, boot, rb2, cfg, sonarr, radarr, db, rb, ops>>

\* find_series_via_map: the lookup in episode_map (dbOk: the store can be
\* opened and queried).  viaMap is what find_series_via_map returned
\* ("hit": a series, "none": None, "": it was not called or has not
\* returned), seen is the table as the SELECT found it, during
\* the number of the rebuild that was in its transaction then, after the
\* number of the rebuild whose commit the store held otherwise.
ViaMapSelect(h) ==
    /\ req[h].pc = "via_map_select"
    /\ \E dbOk \in BOOLEAN :
         LET w == Writer
             seen == IF dbOk THEN Visible(db, w) ELSE << >>
             r == [req[h] EXCEPT
                     !.clean = @ /\ dbOk, !.seen = seen,
                     !.during = IF dbOk /\ InTx(w) THEN w.opno ELSE 0,
                     !.after = IF dbOk /\ ~InTx(w) THEN LastCommit(db) ELSE 0]
             sid == MapLookup(seen, r.note.tvdb)
         IN  req' = [req EXCEPT ![h] =
                       IF sid # 0
                       THEN [r EXCEPT !.mapped = sid, !.pc = "via_map_get"]
                       ELSE FindSeriesStart([r EXCEPT !.viaMap = "none"])]
    /\ UNCHANGED <<repair, hook, boot, rb2, cfg, sonarr, radarr, db, rb, ops>>

\* ViaMapGet taking the series id of the row for the series when the
\* catalog does not return it
ViaMapGetTrustsRow(h) ==
    /\ req[h].pc = "via_map_get"
    /\ \E o \in Outcomes :
         LET r == Sent(req[h], Call("GET", "series/{id}", req[h].mapped), o)
             found == IF o = "ok" THEN ApiSeriesById(sonarr, r.mapped) ELSE NoSeries
         IN  req' = [req EXCEPT ![h] =
                       IF found.id # 0 THEN Resolved([r EXCEPT !.viaMap = "hit"], found)
                       ELSE Resolved([r EXCEPT !.viaMap = "hit"],
                                     [NoSeries EXCEPT !.id = r.mapped])]
    /\ UNCHANGED <<repair, hook, boot, rb2, cfg, sonarr, radarr, db, rb, ops>>

\* ViaMapGet deleting the entry of the index whose series the catalog does
\* not return
ViaMapGetDropsStale(h) ==
    /\ req[h].pc = "via_map_get"
    /\ \E o \in Outcomes :
         LET r == Sent(req[h], Call("GET", "series/{id}", req[h].mapped), o)
             found == IF o = "ok" THEN ApiSeriesById(sonarr, r.mapped) ELSE NoSeries
         IN  /\ req' = [req EXCEPT ![h] =
                          IF found.id # 0 THEN Resolved([r EXCEPT !.viaMap = "hit"], found)
                          ELSE FindSeriesStart([r EXCEPT !.viaMap = "none"])]
             /\ db' = IF found.id # 0 THEN db
                      ELSE [db EXCEPT !.episode_map =
                              [x \in DOMAIN @ \ {r.note.tvdb} |-> @[x]]]
    /\ UNCHANGED <<repair, hook, boot, rb2, cfg, sonarr, radarr, rb, ops>>

\* find_series_via_map: GET series/{series_id}
ViaMapGet(h) ==
    /\ req[h].pc = "via_map_get"
    /\ \E o \in Outcomes :
         LET r == Sent(req[h], Call("GET", "series/{id}", req[h].mapped), o)
             found == IF o = "ok" THEN ApiSeriesById(sonarr, r.mapped) ELSE NoSeries
         IN  req' = [req EXCEPT ![h] =
                       IF found.id # 0 THEN Resolved([r EXCEPT !.viaMap = "hit"], found)
                       ELSE FindSeriesStart([r EXCEPT !.viaMap = "none"])]
    /\ UNCHANGED <<repair, hook, boot, rb2, cfg, sonarr, radarr, db, rb, ops>>

\* the first series of a list whose title matches, ignoring case
TitleMatch(list, title) ==
    LET hits == SelectSeq(list, LAMBDA j : Lower(j.title) = Lower(title))
    IN  IF hits = << >> THEN NoSeries ELSE Head(hits)

\* find_series: GET series?tvdbId=
FindTvdb(h) ==
    /\ req[h].pc = "find_tvdb"
    /\ \E o \in Outcomes :
         LET r == Sent(req[h], Call("GET", "series?tvdbId", 0), o)
             list == IF o = "ok" THEN ApiSeriesByTvdb(sonarr, UseTvdb(r.note)) ELSE << >>
         IN  req' = [req EXCEPT ![h] =
                       IF o = "raise" THEN Respond(r, 404)
                       ELSE IF list # << >> THEN Resolved(r, Head(list))
                       ELSE IF SearchTitle(r.note) # "" THEN [r EXCEPT !.pc = "find_title"]
                       ELSE Respond(r, 404)]
    /\ UNCHANGED <<repair, hook, boot, rb2, cfg, sonarr, radarr, db, rb, ops>>

\* find_series: GET series, then the title match
FindTitle(h) ==
    /\ req[h].pc = "find_title"
    /\ \E o \in Outcomes :
         LET r == Sent(req[h], Call("GET", "series", 0), o)
             found == IF o = "ok"
                      THEN TitleMatch(ApiSeriesList(sonarr), SearchTitle(r.note))
                      ELSE NoSeries
         IN  req' = [req EXCEPT ![h] =
                       IF found.id # 0 THEN Resolved(r, found) ELSE Respond(r, 404)]
    /\ UNCHANGED <<repair, hook, boot, rb2, cfg, sonarr, radarr, db, rb, ops>>

\* FilesGet without the test of file['seasonNumber'] for a Season
FilesGetAllSeasons(h) ==
    /\ req[h].pc = "files_get"
    /\ \E o \in Outcomes :
         LET r == Sent(req[h], Call("GET", "episodefile", req[h].series.id), o)
             files == IF o = "ok" THEN ApiEpisodeFiles(sonarr, r.series.id) ELSE << >>
             queue == [i \in 1..Len(files) |-> files[i].id]
         IN  req' = [req EXCEPT ![h] =
                       IF o = "raise" THEN Respond(r, 200)
                       ELSE IF queue = << >> THEN AfterFiles(r, cfg)
                       ELSE [r EXCEPT !.queue = queue, !.pc = "file_delete"]]
    /\ UNCHANGED <<repair, hook, boot, rb2, cfg, sonarr, radarr, db, rb, ops>>

\* Series and Season: GET episodefile?seriesId=
FilesGet(h) ==
    /\ req[h].pc = "files_get"
    /\ \E o \in Outcomes :
         LET r == Sent(req[h], Call("GET", "episodefile", req[h].series.id), o)
             files == IF o = "ok" THEN ApiEpisodeFiles(sonarr, r.series.id) ELSE << >>
             mine == IF r.note.kind = "Season"
                     THEN SelectSeq(files, LAMBDA f : f.seasonNumber = r.note.season)
                     ELSE files
             queue == [i \in 1..Len(mine) |-> mine[i].id]
         IN  req' = [req EXCEPT ![h] =
                       IF o = "raise" THEN Respond(r, 200)
                       ELSE IF queue = << >> THEN AfterFiles(r, cfg)
                       ELSE [r EXCEPT !.queue = queue, !.pc = "file_delete"]]
    /\ UNCHANGED <<repair, hook, boot, rb2, cfg, sonarr, radarr, db, rb, ops>>

\* Series and Season: DELETE episodefile/{id} for the next file of the list
FileDelete(h) ==
    /\ req[h].pc = "file_delete"
    /\ \E o \in Outcomes :
         LET f == Head(req[h].queue)
             r == [Sent(req[h], Call("DELETE", "episodefile", f), o) EXCEPT
                     !.queue = Tail(@)]
         IN  /\ sonarr' = IF o = "ok" THEN ApiDeleteEpisodeFile(sonarr, f) ELSE sonarr
             /\ req' = [req EXCEPT ![h] =
                          IF o = "raise" THEN Respond(r, 200)
                          ELSE IF r.queue = << >> THEN AfterFiles(r, cfg)
                          ELSE r]
    /\ UNCHANGED <<repair, hook, boot, rb2, cfg, radarr, db, rb, ops>>

\* AllMonitoredHaveFile answering True whatever the episodes' files
CheckIgnoresFiles(episodes) == TRUE

\* for ep in episodes: if ep['monitored'] and not ep.get('hasFile'): return False
AllMonitoredHaveFile(episodes) ==
    \A i \in 1..Len(episodes) : ~(episodes[i].monitored /\ ~episodes[i].hasFile)

\* CheckGet taking a failed request for a complete series or season
CheckGetFailsOpen(h) ==
    /\ req[h].pc = "check_get"
    /\ \E o \in Outcomes :
         LET r0 == req[h]
             whole == r0.note.kind = "Series"
             r == Sent(r0, Call("GET", IF whole THEN "episode" ELSE "episode?season",
                                r0.series.id), o)
             episodes == IF whole THEN ApiEpisodes(sonarr, r.series.id)
                         ELSE ApiEpisodesOfSeason(sonarr, r.series.id, r.note.season)
             fully == o # "ok" \/ AllMonitoredHaveFile(episodes)
         IN  req' = [req EXCEPT ![h] =
                       IF whole
                       THEN IF r.series.ended /\ fully
                            THEN [r EXCEPT !.pc = "series_delete"]
                            ELSE Respond(r, 200)
                       ELSE IF fully THEN UnmonitorSeason(r) ELSE Respond(r, 200)]
    /\ UNCHANGED <<repair, hook, boot, rb2, cfg, sonarr, radarr, db, rb, ops>>

\* mode 3: is_series_fully_downloaded / is_season_fully_downloaded
CheckGet(h) ==
    /\ req[h].pc = "check_get"
    /\ \E o \in Outcomes :
         LET r0 == req[h]
             whole == r0.note.kind = "Series"
             r == Sent(r0, Call("GET", IF whole THEN "episode" ELSE "episode?season",
                                r0.series.id), o)
             episodes == IF whole THEN ApiEpisodes(sonarr, r.series.id)
                         ELSE ApiEpisodesOfSeason(sonarr, r.series.id, r.note.season)
             fully == o = "ok" /\ AllMonitoredHaveFile(episodes)
         IN  req' = [req EXCEPT ![h] =
                       IF whole
                       THEN IF r.series.ended /\ fully
                            THEN [r EXCEPT !.pc = "series_delete"]
                            ELSE Respond(r, 200)
                       ELSE IF fully THEN UnmonitorSeason(r) ELSE Respond(r, 200)]
    /\ UNCHANGED <<repair, hook, boot, rb2, cfg, sonarr, radarr, db, rb, ops>>

\* Series, mode 2 or 3: DELETE series/{id}?deleteFiles=true
SeriesDelete(h) ==
    /\ req[h].pc = "series_delete"
    /\ \E o \in Outcomes :
         LET r == Sent(req[h], Call("DELETE", "series", req[h].series.id), o)
         IN  /\ sonarr' = IF o = "ok" THEN ApiDeleteSeries(sonarr, r.series.id) ELSE sonarr
             /\ req' = [req EXCEPT ![h] = Respond(r, 200)]
    /\ UNCHANGED <<repair, hook, boot, rb2, cfg, radarr, db, rb, ops>>

\* Season, mode 2 or 3: PUT series/{id} with the series as fetched, the
\* season's flag cleared
SeasonPut(h) ==
    /\ req[h].pc = "season_put"
    /\ \E o \in Outcomes :
         LET r == Sent(req[h], Call("PUT", "series", req[h].series.id), o)
         IN  /\ sonarr' = IF o = "ok" THEN ApiPutSeries(sonarr, r.series.id, r.series)
                          ELSE sonarr
             /\ req' = [req EXCEPT ![h] = Respond(r, 200)]
    /\ UNCHANGED <<repair, hook, boot, rb2, cfg, radarr, db, rb, ops>>

\* AfterEpisodePut sending the DELETE whether the episode has a file or not
AfterEpisodePutAlwaysDeletes(r) == [r EXCEPT !.pc = "episode_file_delete"]

\* what follows the unmonitoring of the episode: its file, if it has one
AfterEpisodePut(r) ==
    IF r.target.hasFile THEN [r EXCEPT !.pc = "episode_file_delete"]
    ELSE Respond(r, 200)

\* Episode: GET episode?seriesId=&seasonNumber=, then the episode with the
\* notification's episode number
EpisodeGet(h) ==
    /\ req[h].pc = "episode_get"
    /\ \E o \in Outcomes :
         LET r == Sent(req[h], Call("GET", "episode?season", req[h].series.id), o)
             episodes == ApiEpisodesOfSeason(sonarr, r.series.id, r.note.season)
             hits == SelectSeq(episodes, LAMBDA e : e.episodeNumber = r.note.episode)
         IN  req' = [req EXCEPT ![h] =
                       IF o = "raise" THEN Respond(r, 200)
                       ELSE IF o = "error" THEN Respond(r, 500)
                       ELSE IF hits = << >> THEN Respond(r, 200)
                       ELSE IF Head(hits).monitored
                            THEN [r EXCEPT !.target = [Head(hits) EXCEPT !.monitored = FALSE],
                                           !.pc = "episode_put"]
                            ELSE AfterEpisodePut([r EXCEPT !.target = Head(hits)])]
    /\ UNCHANGED <<repair, hook, boot, rb2, cfg, sonarr, radarr, db, rb, ops>>

\* Episode: PUT episode/{id} with monitored = False
EpisodePut(h) ==
    /\ req[h].pc = "episode_put"
    /\ \E o \in Outcomes :
         LET r == Sent(req[h], Call("PUT", "episode", req[h].target.id), o)
         IN  /\ sonarr' = IF o = "ok" THEN ApiPutEpisode(sonarr, r.target.id, r.target)
                          ELSE sonarr
             /\ req' = [req EXCEPT ![h] =
                          IF o = "raise" THEN Respond(r, 200) ELSE AfterEpisodePut(r)]
    /\ UNCHANGED <<repair, hook, boot, rb2, cfg, radarr, db, rb, ops>>

\* Episode: DELETE episodefile/{episodeFileId}
EpisodeFileDelete(h) ==
    /\ req[h].pc = "episode_file_delete"
    /\ \E o \in Outcomes :
         LET f == req[h].target.episodeFileId
             r == Sent(req[h], Call("DELETE", "episodefile", f), o)
         IN  /\ sonarr' = IF o = "ok" THEN ApiDeleteEpisodeFile(sonarr, f) ELSE sonarr
             /\ req' = [req EXCEPT ![h] = Respond(r, 200)]
    /\ UNCHANGED <<repair, hook, boot, rb2, cfg, radarr, db, rb, ops>>

\* MovieGet taking the first movie of the whole catalog, whatever its tmdbId
MovieGetAnyMovie(h) ==
    /\ req[h].pc = "movie_get"
    /\ \E o \in Outcomes :
         LET r == Sent(req[h], Call("GET", "movie?tmdbId", 0), o)
             list == IF o = "ok" THEN ApiMovieList(radarr) ELSE << >>
         IN  req' = [req EXCEPT ![h] =
                       IF list = << >> THEN Respond(r, 200)
                       ELSE [r EXCEPT !.mapped = Head(list).id, !.pc = "movie_delete"]]
    /\ UNCHANGED <<repair, hook, boot, rb2, cfg, sonarr, radarr, db, rb, ops>>

\* Movie: GET movie?tmdbId=
MovieGet(h) ==
    /\ req[h].pc = "movie_get"
    /\ \E o \in Outcomes :
         LET r == Sent(req[h], Call("GET", "movie?tmdbId", 0), o)
             list == IF o = "ok" THEN ApiMoviesByTmdb(radarr, r.note.tmdb) ELSE << >>
         IN  req' = [req EXCEPT ![h] =
                       IF list = << >> THEN Respond(r, 200)
                       ELSE [r EXCEPT !.mapped = Head(list).id, !.pc = "movie_delete"]]
    /\ UNCHANGED <<repair, hook, boot, rb2, cfg, sonarr, radarr, db, rb, ops>>

\* Movie: DELETE movie/{id}?deleteFiles=true
MovieDelete(h) ==
    /\ req[h].pc = "movie_delete"
    /\ \E o \in Outcomes :
         LET r == Sent(req[h], Call("DELETE", "movie", req[h].mapped), o)
         IN  /\ radarr' = IF o = "ok" THEN ApiDeleteMovie(radarr, r.mapped) ELSE radarr
             /\ req' = [req EXCEPT ![h] = Respond(r, 200)]
    /\ UNCHANGED <<repair, hook, boot, rb2, cfg, sonarr, db, rb, ops>>

(***************************************************************************)
(* The store and build_provider_map                                        *)
(***************************************************************************)
\* the tables a rebuild replaces, empty (after DELETE FROM each of them)
EmptyTables ==
    [series |-> {}, seasons |-> {}, episodes |-> {}, movies |-> {},
     episode_map |-> << >>]

\* the tables of a store
TablesOf(d) ==
    [series |-> d.series, seasons |-> d.seasons, episodes |-> d.episodes,
     movies |-> d.movies, episode_map |-> d.episode_map]

\* INSERT OR IGNORE INTO episode_map (episode_tvdb_id, series_id)
InsertOrIgnore(map, key, sid) ==
    IF key \in DOMAIN map THEN map ELSE map @@ (key :> sid)

RECURSIVE MapEpisodes(_, _, _)
\* the episode loop's writes to episode_map, in list order: one INSERT OR
\* IGNORE per episode that carries a tvdbId
MapEpisodes(map, episodes, sid) ==
    IF episodes = << >> THEN map
    ELSE LET ep == Head(episodes)
             next == IF ep.tvdbId # 0
                     THEN InsertOrIgnore(map, Str(ep.tvdbId), sid)
                     ELSE map
         IN  MapEpisodes(next, Tail(episodes), sid)

SeriesRow(j) == [series_id |-> j.id, title |-> j.title, tvdb_id |-> j.tvdbId]
SeasonRows(j) == {[series_id |-> j.id, season_number |-> n] : n \in DOMAIN j.seasons}
EpisodeRows(episodes, sid) ==
    {[episode_id |-> episodes[i].id, series_id |-> sid,
      season_number |-> episodes[i].seasonNumber,
      episode_number |-> episodes[i].episodeNumber,
      tvdb_id |-> episodes[i].tvdbId] : i \in 1..Len(episodes)}
MovieRows(movies) ==
    {[movie_id |-> movies[i].id, title |-> movies[i].title,
      tmdb_id |-> movies[i].tmdbId] : i \in 1..Len(movies)}

\* DeleteAll without DELETE FROM episode_map
DeleteAllButMap(tables) == [EmptyTables EXCEPT !.episode_map = tables.episode_map]

\* DELETE FROM movies, episodes, seasons, series, episode_map
DeleteAll(tables) == EmptyTables

\* conn.commit(): the transaction's tables replace the committed ones
Commit(store, tx) ==
    [series |-> tx.series, seasons |-> tx.seasons, episodes |-> tx.episodes,
     movies |-> tx.movies, episode_map |-> tx.episode_map,
     settings |-> store.settings, series_status |-> store.series_status,
     writer |-> store.writer]

\* CloseUncommitted on a connection in autocommit mode: every statement
\* executed so far is already in the store
CloseKeepsWrites(store, tx) == Commit(store, tx)

\* conn.close() with the transaction open: sqlite rolls it back, the store
\* keeps its committed contents
CloseUncommitted(store, tx) == store

\* save_setting(key, value): INSERT OR REPLACE INTO settings
SaveSetting(store, key, value) ==
    [store EXCEPT !.settings =
        [k \in DOMAIN store.settings \cup {key} |->
            IF k = key THEN value ELSE store.settings[k]]]

\* one pass of the series loop: the series' row, its seasons' rows, and
\* the rows and episode_map entries of the episodes fetched for it
SeriesWrites(tx, ser, episodes) ==
    [tx EXCEPT !.series = @ \cup {SeriesRow(ser)},
               !.seasons = @ \cup SeasonRows(ser),
               !.episodes = @ \cup EpisodeRows(episodes, ser.id),
               !.episode_map = MapEpisodes(@, episodes, ser.id)]

RECURSIVE AllSeriesWrites(_, _, _)
\* the series loop over a whole list, every episode fetch answered
AllSeriesWrites(tx, list, cat) ==
    IF list = << >> THEN tx
    ELSE AllSeriesWrites(SeriesWrites(tx, Head(list), ApiEpisodes(cat, Head(list).id)),
                         Tail(list), cat)

\* a store that was never filled (writer: the job whose commit wrote the
\* tables, 1 for rb, 2 for rb2, 0 for none of this run)
EmptyStore ==
    [series |-> {}, seasons |-> {}, episodes |-> {}, movies |-> {},
     episode_map |-> << >>, settings |-> << >>, series_status |-> {},
     writer |-> 0]

\* the store left by a rebuild of an earlier run of the process in which
\* every request was answered
Rebuilt(cat, movies) ==
    LET tx == [AllSeriesWrites(EmptyTables, ApiSeriesList(cat), cat)
                 EXCEPT !.movies = MovieRows(ApiMovieList(movies))]
    IN  SaveSetting(Commit(EmptyStore, tx), "last_refresh", Str(0))

\* set_series_completed(sid, True): INSERT OR REPLACE INTO series_status
SetSeriesCompleted(store, sid) ==
    [store EXCEPT !.series_status =
        {row \in @ : row.series_id # sid} \cup {[series_id |-> sid, is_completed |-> 1]}]

IdleRebuild ==
    [pc |-> "idle", opno |-> 0, tx |-> EmptyTables, todo |-> << >>,
     fetched |-> {}, before |-> EmptyTables, result |-> "", clear |-> FALSE,
     status0 |-> {}, settings0 |-> << >>, movies |-> ""]

\* the rebuild ends: conn.close() discards what was not committed
EndRebuild(b, result) ==
    [b EXCEPT !.pc = "done", !.result = result, !.tx = EmptyTables, !.todo = << >>]

\* WriteLocked with sqlite letting two connections write at once
NeverLocked(other) == FALSE

\* the first DELETE of a rebuild waits for the write lock (5 s, the default
\* timeout of sqlite3.connect) and raises "database is locked" while the
\* rebuild of another thread holds it
WriteLocked(other) == InTx(other)

\* ClearStatus with DELETE FROM series_status executed unconditionally
ClearStatusAlways(rows, clear) == {}

\* if clear_status: DELETE FROM series_status
ClearStatus(rows, clear) == IF clear THEN {} ELSE rows

\* build_provider_map up to the series fetch: open the store, DELETE FROM
\* movies, episodes, seasons, series, episode_map (and series_status)
\* inside the transaction
BeginStep(store, other, opno, dbOk, clear) ==
    LET b == [IdleRebuild EXCEPT !.opno = opno, !.before = TablesOf(store),
                                 !.clear = clear,
                                 !.status0 = store.series_status,
                                 !.settings0 = store.settings]
    IN  IF ~dbOk THEN EndRebuild(b, "no_store")
        ELSE IF WriteLocked(other) THEN EndRebuild(b, "locked")
        ELSE [b EXCEPT !.tx = DeleteAll(TablesOf(store)), !.pc = "fetch_series"]

\* SeriesStep with the DELETE FROM series_status kept when the function
\* returns after a failed request
SeriesStepKeepsStatusClear(b, store, o, cat) ==
    LET list == ApiSeriesList(cat)
    IN  IF o # "ok"
        THEN [b |-> EndRebuild(b, "series_failed"),
              db |-> [CloseUncommitted(store, b.tx) EXCEPT
                        !.series_status = ClearStatus(@, b.clear)]]
        ELSE [b |-> [b EXCEPT !.todo = list,
                              !.pc = IF list = << >> THEN "fetch_movies"
                                     ELSE "fetch_episodes"],
              db |-> store]

\* GET series; on a non-200 answer or an exception the function returns
\* with the connection closed and nothing committed
SeriesStep(b, store, o, cat) ==
    LET list == ApiSeriesList(cat)
    IN  IF o # "ok"
        THEN [b |-> EndRebuild(b, "series_failed"), db |-> CloseUncommitted(store, b.tx)]
        ELSE [b |-> [b EXCEPT !.todo = list,
                              !.pc = IF list = << >> THEN "fetch_movies"
                                     ELSE "fetch_episodes"],
              db |-> store]

\* the next series of the list: its row, its seasons' rows, GET
\* episode?seriesId=, the episodes' rows and episode_map entries
EpisodesStep(b, store, o, cat) ==
    LET ser == Head(b.todo)
        episodes == IF o = "ok" THEN ApiEpisodes(cat, ser.id) ELSE << >>
        tx == SeriesWrites(b.tx, ser, episodes)
        got == {<<Str(episodes[i].tvdbId), ser.id>> :
                  i \in {k \in 1..Len(episodes) : episodes[k].tvdbId # 0}}
    IN  IF o = "raise"
        THEN [b |-> EndRebuild(b, "episodes_failed"),
              db |-> CloseUncommitted(store, b.tx)]
        ELSE [b |-> [b EXCEPT !.tx = tx, !.todo = Tail(@),
                              !.fetched = @ \cup got,
                              !.pc = IF Tail(b.todo) = << >> THEN "fetch_movies"
                                     ELSE "fetch_episodes"],
              db |-> store]

\* GET movie, the movies' rows, conn.commit(), the closing log line and
\* save_setting('last_refresh', now).  After a non-200 answer movie_count
\* is unbound: the log line raises NameError after the commit and the
\* setting is not saved.  An exception of the request skips the commit.
MoviesStep(b, store, o, movies, job) ==
    LET list == IF o = "ok" THEN ApiMovieList(movies) ELSE << >>
        tx == [b.tx EXCEPT !.movies = MovieRows(list)]
        committed == [Commit(store, tx) EXCEPT
                        !.series_status = ClearStatus(@, b.clear),
                        !.writer = job]
    IN  IF o = "raise"
        THEN [b |-> EndRebuild([b EXCEPT !.movies = o], "movies_failed"),
              db |-> CloseUncommitted(store, b.tx)]
        ELSE [b |-> EndRebuild([b EXCEPT !.movies = o], "committed"),
              db |-> IF o = "ok"
                     THEN SaveSetting(committed, "last_refresh", Str(b.opno))
                     ELSE committed]

\* build_provider_map has returned: its locals are gone
RebuildReturn ==
    /\ rb.pc = "done"
    /\ rb' = IdleRebuild
    /\ UNCHANGED <<repair, hook, boot, rb2, cfg, sonarr, radarr, db, req, ops>>

\* build_provider_map is called with clear_status = clear
RebuildBeginWith(clear) ==
    /\ rb.pc = "idle"
    /\ ops < MaxOps
    /\ ops' = ops + 1
    /\ \E dbOk \in BOOLEAN : rb' = BeginStep(db, rb2, ops + 1, dbOk, clear)
    /\ UNCHANGED <<repair, hook, boot, rb2, cfg, sonarr, radarr, db, req>>

\* build_provider_map of the script is called (a scheduler job, or
\* --rebuild): it has no clear_status and names series_status nowhere
RebuildBegin == RebuildBeginWith(FALSE)

\* build_provider_map of sonarr.py is called, with or without clear_status
RebuildBeginStatus == \E clear \in BOOLEAN : RebuildBeginWith(clear)

RebuildFetchSeries ==
    /\ rb.pc = "fetch_series"
    /\ \E o \in Outcomes :
         LET next == SeriesStep(rb, db, o, sonarr)
         IN  rb' = next.b /\ db' = next.db
    /\ UNCHANGED <<repair, hook, boot, rb2, cfg, sonarr, radarr, req, ops>>

RebuildFetchEpisodes ==
    /\ rb.pc = "fetch_episodes"
    /\ \E o \in Outcomes :
         LET next == EpisodesStep(rb, db, o, sonarr)
         IN  rb' = next.b /\ db' = next.db
    /\ UNCHANGED <<repair, hook, boot, rb2, cfg, sonarr, radarr, req, ops>>

RebuildFetchMovies ==
    /\ rb.pc = "fetch_movies"
    /\ \E o \in Outcomes :
         LET next == MoviesStep(rb, db, o, radarr, 1)
         IN  rb' = next.b /\ db' = next.db
    /\ UNCHANGED <<repair, hook, boot, rb2, cfg, sonarr, radarr, req, ops>>

(***************************************************************************)
(* sonarr_webhook.  The body posted to /sonarr: body is "undecodable"      *)
(* (get_json raises), "null" (JSON null) or "json" (an object); event is   *)
(* eventType ("" when absent); episodes.has: the key is present, .typed:   *)
(* its value is a list, .ids: the tvdbId of each element (0: none, -1: the *)
(* element is not an object); series.has: the key is present, .id: its id  *)
(* (0: the object has no 'id').                                            *)
(***************************************************************************)
HookNote(body, event, episodes, series) ==
    [body |-> body, event |-> event, episodes |-> episodes, series |-> series]

NoEpisodesKey == [has |-> FALSE, typed |-> TRUE, ids |-> << >>]
EpisodeList(ids) == [has |-> TRUE, typed |-> TRUE, ids |-> ids]
EpisodesNotAList == [has |-> TRUE, typed |-> FALSE, ids |-> << >>]
NoSeriesKey == [has |-> FALSE, id |-> 0]
SeriesRef(s) == [has |-> TRUE, id |-> s]

HookNotes ==
    { HookNote("undecodable", "", NoEpisodesKey, NoSeriesKey),
      HookNote("null", "", NoEpisodesKey, NoSeriesKey),
      HookNote("json", "", NoEpisodesKey, NoSeriesKey),
      HookNote("json", "Test", NoEpisodesKey, SeriesRef(1)),
      HookNote("json", "Download", EpisodeList(<<11>>), SeriesRef(1)),
      HookNote("json", "Download", EpisodeList(<<12, 0>>), SeriesRef(2)),
      HookNote("json", "Download", EpisodeList(<<14, -1, 11>>), SeriesRef(2)),
      HookNote("json", "Download", EpisodeList(<<13>>), NoSeriesKey),
      HookNote("json", "Download", EpisodeList(<<13>>), SeriesRef(0)),
      HookNote("json", "Download", EpisodesNotAList, SeriesRef(1)),
      HookNote("json", "Download", NoEpisodesKey, SeriesRef(1)),
      HookNote("json", "EpisodeFileDelete", EpisodeList(<<11>>), SeriesRef(1)),
      HookNote("json", "EpisodeFileDelete", EpisodeList(<<12, -1, 13>>), SeriesRef(2)),
      HookNote("json", "EpisodeFileDelete", EpisodesNotAList, SeriesRef(1)),
      HookNote("json", "SeriesDelete", NoEpisodesKey, SeriesRef(1)),
      HookNote("json", "SeriesDelete", NoEpisodesKey, SeriesRef(2)),
      HookNote("json", "SeriesDelete", NoEpisodesKey, SeriesRef(0)),
      HookNote("json", "SeriesDelete", NoEpisodesKey, NoSeriesKey),
      HookNote("json", "SeriesAdd", NoEpisodesKey, SeriesRef(1)),
      HookNote("json", "SeriesAdd", NoEpisodesKey, SeriesRef(2)),
      HookNote("json", "SeriesAdd", NoEpisodesKey, SeriesRef(0)) }

IdleHook ==
    [pc |-> "idle", note |-> HookNote("null", "", NoEpisodesKey, NoSeriesKey),
     status |-> 0, text |-> "", before |-> << >>, during |-> 0]

\* return <text>, 200
HookRespond(k, text) == [k EXCEPT !.pc = "done", !.status = 200, !.text = text]

\* HookFail without the handler's except clause: Flask answers 500
HookFailUncaught(k) ==
    [k EXCEPT !.pc = "done", !.status = 500, !.text = "Internal Server Error"]

\* except Exception: return 'OK (error handled)', 200
HookFail(k) == HookRespond(k, "OK (error handled)")

\* INSERT OR REPLACE INTO episode_map (episode_tvdb_id, series_id)
InsertOrReplace(map, key, sid) ==
    [x \in DOMAIN map \cup {key} |-> IF x = key THEN sid ELSE map[x]]

\* DELETE FROM episode_map WHERE episode_tvdb_id = key
DeleteKey(map, key) == [x \in DOMAIN map \ {key} |-> map[x]]

\* DELETE FROM episode_map, without the WHERE clause
DeleteEveryKey(map, sid) == [x \in {} |-> sid]

\* DELETE FROM episode_map WHERE series_id = sid
DeleteSeriesKeys(map, sid) == [x \in {y \in DOMAIN map : map[y] # sid} |-> map[x]]

RECURSIVE DownloadLoop(_, _, _)
\* 'Download': for ep in data['episodes'], INSERT OR REPLACE for each
\* episode with a tvdbId; raised: an element without .get, or
\* data['series']['id'] missing, stops the loop with an exception
DownloadLoop(map, ids, series) ==
    IF ids = << >> THEN [map |-> map, raised |-> FALSE, wrote |-> FALSE]
    ELSE IF Head(ids) < 0 THEN [map |-> map, raised |-> TRUE, wrote |-> FALSE]
    ELSE IF Head(ids) = 0 THEN DownloadLoop(map, Tail(ids), series)
    ELSE IF ~series.has \/ series.id = 0
         THEN [map |-> map, raised |-> TRUE, wrote |-> FALSE]
    ELSE [DownloadLoop(InsertOrReplace(map, Str(Head(ids)), series.id),
                       Tail(ids), series) EXCEPT !.wrote = TRUE]

RECURSIVE FileDeleteLoop(_, _)
\* 'EpisodeFileDelete': for ep in data['episodes'], DELETE the entry of
\* each episode with a tvdbId
FileDeleteLoop(map, ids) ==
    IF ids = << >> THEN [map |-> map, raised |-> FALSE, wrote |-> FALSE]
    ELSE IF Head(ids) < 0 THEN [map |-> map, raised |-> TRUE, wrote |-> FALSE]
    ELSE IF Head(ids) = 0 THEN FileDeleteLoop(map, Tail(ids))
    ELSE [FileDeleteLoop(DeleteKey(map, Str(Head(ids))), Tail(ids))
            EXCEPT !.wrote = TRUE]

\* the statements of the event's branch up to conn.commit(), for the
\* events that make no request
HookBranch(map, n) ==
    LET same == [map |-> map, raised |-> FALSE, wrote |-> FALSE]
        broken == [map |-> map, raised |-> TRUE, wrote |-> FALSE]
    IN  IF n.event = "Download" /\ n.episodes.has
        THEN IF n.episodes.typed THEN DownloadLoop(map, n.episodes.ids, n.series)
             ELSE broken
        ELSE IF n.event = "EpisodeFileDelete" /\ n.episodes.has
        THEN IF n.episodes.typed THEN FileDeleteLoop(map, n.episodes.ids)
             ELSE broken
        ELSE IF n.event = "SeriesDelete" /\ n.series.has
        THEN IF n.series.id = 0 THEN broken
             ELSE [map |-> DeleteSeriesKeys(map, n.series.id), raised |-> FALSE,
                   wrote |-> TRUE]
        ELSE same

\* POST /sonarr arrives: the handler up to its response or, for
\* 'SeriesAdd', up to its request.  A statement that writes while a rebuild
\* holds the write lock raises.
HookHandle(n, dbOk) ==
    LET k == [IdleHook EXCEPT !.note = n, !.before = db.episode_map,
                              !.during = IF InTx(Writer) THEN Writer.opno ELSE 0]
        out == HookBranch(db.episode_map, n)
        locked == out.wrote /\ (InTx(rb) \/ InTx(rb2))
    IN  IF n.body # "json" THEN [hook |-> HookFail(k), db |-> db]
        ELSE IF ~dbOk THEN [hook |-> HookRespond(k, "DB error"), db |-> db]
        ELSE IF n.event = "SeriesAdd" /\ n.series.has
        THEN [hook |-> IF n.series.id = 0 THEN HookFail(k)
                       ELSE [k EXCEPT !.pc = "series_add_get"],
              db |-> db]
        ELSE IF out.raised \/ locked THEN [hook |-> HookFail(k), db |-> db]
        ELSE [hook |-> HookRespond(k, "OK"),
              db |-> [db EXCEPT !.episode_map = out.map]]

\* POST /sonarr with the body n
HookReceive(n) ==
    /\ hook.pc = "idle"
    /\ \E dbOk \in BOOLEAN :
         LET next == HookHandle(n, dbOk)
         IN  hook' = next.hook /\ db' = next.db
    /\ UNCHANGED <<repair, boot, rb2, cfg, sonarr, radarr, rb, req, ops>>

\* 'SeriesAdd': GET episode?seriesId=, INSERT OR IGNORE for each episode
\* with a tvdbId, conn.commit(); a failure of the request or of an INSERT
\* (the write lock is held by a rebuild) is logged by the inner try
HookSeriesAddGet ==
    /\ hook.pc = "series_add_get"
    /\ \E o \in Outcomes :
         LET sid == hook.note.series.id
             episodes == IF o = "ok" THEN ApiEpisodes(sonarr, sid) ELSE << >>
             map == MapEpisodes(db.episode_map, episodes, sid)
             locked == map # db.episode_map /\ (InTx(rb) \/ InTx(rb2))
         IN  /\ hook' = HookRespond(hook, "OK")
             /\ db' = IF locked THEN db ELSE [db EXCEPT !.episode_map = map]
    /\ UNCHANGED <<repair, boot, rb2, cfg, sonarr, radarr, rb, req, ops>>

\* the response has been sent
HookReply ==
    /\ hook.pc = "done"
    /\ hook' = IdleHook
    /\ UNCHANGED <<repair, boot, rb2, cfg, sonarr, radarr, db, rb, req, ops>>

(***************************************************************************)
(* Sonarr changes its catalog and reports the change to /sonarr: a file is *)
(* imported for an episode ('Download'), the file of an episode is deleted *)
(* ('EpisodeFileDelete'), a series is removed ('SeriesDelete') or added    *)
(* ('SeriesAdd').  The report is handled before the next change.           *)
(***************************************************************************)
\* sonarr_webhook handles the event of the body Sonarr posts, the store
\* being available: for an event of an episode the body names its tvdbId
\* and its series, for an event of a series the series
SonarrReports(event, episodes, s) ==
    LET next == HookHandle(HookNote("json", event, episodes, SeriesRef(s)), TRUE)
    IN  hook' = next.hook /\ db' = next.db

SonarrDownload ==
    /\ hook.pc = "idle"
    /\ \E e \in EpisodeIds :
         /\ EpSeries[e] \in sonarr.series /\ ~sonarr.epFile[e]
         /\ sonarr' = [sonarr EXCEPT !.epFile[e] = TRUE]
         /\ SonarrReports("Download", EpisodeList(<<EpTvdb[e]>>), EpSeries[e])
    /\ UNCHANGED <<repair, boot, rb2, cfg, radarr, rb, req, ops>>

SonarrEpisodeFileDelete ==
    /\ hook.pc = "idle"
    /\ \E e \in EpisodeIds :
         /\ EpSeries[e] \in sonarr.series /\ sonarr.epFile[e]
         /\ sonarr' = ApiDeleteEpisodeFile(sonarr, FileOf(e))
         /\ SonarrReports("EpisodeFileDelete", EpisodeList(<<EpTvdb[e]>>), EpSeries[e])
    /\ UNCHANGED <<repair, boot, rb2, cfg, radarr, rb, req, ops>>

SonarrSeriesDelete ==
    /\ hook.pc = "idle"
    /\ \E s \in sonarr.series :
         /\ sonarr' = ApiDeleteSeries(sonarr, s)
         /\ SonarrReports("SeriesDelete", NoEpisodesKey, s)
    /\ UNCHANGED <<repair, boot, rb2, cfg, radarr, rb, req, ops>>

SonarrSeriesAdd ==
    /\ hook.pc = "idle"
    /\ \E s \in SeriesIds \ sonarr.series :
         /\ sonarr' = [sonarr EXCEPT
                 !.series = @ \cup {s},
                 !.seasonMon = [k \in SeasonKeys |-> IF k[1] = s THEN TRUE ELSE @[k]],
                 !.epMon = [e \in EpisodeIds |-> IF EpSeries[e] = s THEN TRUE ELSE @[e]]]
         /\ SonarrReports("SeriesAdd", NoEpisodesKey, s)
    /\ UNCHANGED <<repair, boot, rb2, cfg, radarr, rb, req, ops>>

\* 'SeriesAdd': the request for the episodes of the series is answered
SyncSeriesAddGet ==
    /\ hook.pc = "series_add_get"
    /\ LET sid == hook.note.series.id
           map == MapEpisodes(db.episode_map, ApiEpisodes(sonarr, sid), sid)
       IN  /\ hook' = HookRespond(hook, "OK")
           /\ db' = [db EXCEPT !.episode_map = map]
    /\ UNCHANGED <<repair, boot, rb2, cfg, sonarr, radarr, rb, req, ops>>

(***************************************************************************)
(* Start of the process: validation of config.py at import, then main.     *)
(* REFRESH_INTERVAL_MINUTES is "none" (None), "valid" (a positive int) or  *)
(* "invalid"; REFRESH_SCHEDULE is None, not a list, a list of n            *)
(* dictionaries, or a list with an element that is not a dictionary.       *)
(***************************************************************************)
IntervalSettings == {"none", "valid", "invalid"}
ScheduleSettings ==
    { [kind |-> "none", n |-> 0], [kind |-> "notlist", n |-> 0],
      [kind |-> "list", n |-> 0], [kind |-> "list", n |-> 1],
      [kind |-> "list", n |-> 2], [kind |-> "baditem", n |-> 1] }
\* values of SERIES_DELETION_MODE and SEASON_DELETION_MODE in config.py
ModeSettings == 0..4

\* "Validate deletion modes"
ModesValid(c) == c.series \in Modes /\ c.season \in Modes

\* RefreshValid without the test that forbids both settings together
RefreshValidApart(interval, schedule) ==
    /\ interval # "none" => interval = "valid"
    /\ schedule.kind # "none" => (schedule.kind = "list" /\ schedule.n > 0)

\* "Validate refresh schedule": not both; the interval a positive int; the
\* schedule a non-empty list of dictionaries
RefreshValid(interval, schedule) ==
    /\ ~(interval # "none" /\ schedule.kind # "none")
    /\ interval # "none" => interval = "valid"
    /\ schedule.kind # "none" => (schedule.kind = "list" /\ schedule.n > 0)

IntervalJob == [trigger |-> "interval", id |-> 0]
CronJob(i) == [trigger |-> "cron", id |-> i]

\* the jobs setup_scheduler registers
JobsOf(interval, schedule) ==
    (IF interval # "none" THEN {IntervalJob} ELSE {})
        \cup (IF schedule.kind # "none"
              THEN {CronJob(i) : i \in 0..(schedule.n - 1)} ELSE {})

\* the process between the import of config and its validation
Booting(interval, schedule, rebuild) ==
    [pc |-> "import", interval |-> interval, schedule |-> schedule,
     rebuild |-> rebuild, jobs |-> {}]

\* a process that has started with a schedule of n entries and serves
Serving(n) ==
    [pc |-> "serving", interval |-> "none", schedule |-> [kind |-> "list", n |-> n],
     rebuild |-> FALSE, jobs |-> JobsOf("none", [kind |-> "list", n |-> n])]

\* module level: the two validations; exit(1) when one fails
BootValidate ==
    /\ boot.pc = "import"
    /\ boot' = [boot EXCEPT !.pc =
                  IF ModesValid(cfg) /\ RefreshValid(boot.interval, boot.schedule)
                  THEN "main" ELSE "exited"]
    /\ UNCHANGED <<repair, hook, rb2, cfg, sonarr, radarr, db, rb, req, ops>>

\* __main__: init_database(), then build_provider_map() when --rebuild
BootInitDatabase ==
    /\ boot.pc = "main"
    /\ boot' = [boot EXCEPT !.pc = IF boot.rebuild THEN "rebuild" ELSE "scheduler"]
    /\ UNCHANGED <<repair, hook, rb2, cfg, sonarr, radarr, db, rb, req, ops>>

\* build_provider_map() of --rebuild has returned
BootRebuilt ==
    /\ boot.pc = "rebuild" /\ rb.pc = "done"
    /\ boot' = [boot EXCEPT !.pc = "scheduler"]
    /\ rb' = IdleRebuild
    /\ UNCHANGED <<repair, hook, rb2, cfg, sonarr, radarr, db, req, ops>>

\* setup_scheduler()
BootSetupScheduler ==
    /\ boot.pc = "scheduler"
    /\ boot' = [boot EXCEPT !.pc = "scheduled",
                            !.jobs = JobsOf(boot.interval, boot.schedule)]
    /\ UNCHANGED <<repair, hook, rb2, cfg, sonarr, radarr, db, rb, req, ops>>

\* app.run(): requests are served from here on
BootServe ==
    /\ boot.pc = "scheduled"
    /\ boot' = [boot EXCEPT !.pc = "serving"]
    /\ UNCHANGED <<repair, hook, rb2, cfg, sonarr, radarr, db, rb, req, ops>>

(***************************************************************************)
(* Two jobs of the scheduler.  Jobs of different ids run in different       *)
(* threads of the scheduler's pool and may overlap.                        *)
(***************************************************************************)
\* build_provider_map run by the job 'scheduled_refresh_1'
Rebuild2Begin ==
    /\ rb2.pc = "idle"
    /\ CronJob(1) \in boot.jobs
    /\ ops < MaxOps
    /\ ops' = ops + 1
    /\ \E dbOk \in BOOLEAN : rb2' = BeginStep(db, rb, ops + 1, dbOk, FALSE)
    /\ UNCHANGED <<repair, hook, boot, rb, cfg, sonarr, radarr, db, req>>

Rebuild2FetchSeries ==
    /\ rb2.pc = "fetch_series"
    /\ \E o \in Outcomes :
         LET next == SeriesStep(rb2, db, o, sonarr)
         IN  rb2' = next.b /\ db' = next.db
    /\ UNCHANGED <<repair, hook, boot, rb, cfg, sonarr, radarr, req, ops>>

Rebuild2FetchEpisodes ==
    /\ rb2.pc = "fetch_episodes"
    /\ \E o \in Outcomes :
         LET next == EpisodesStep(rb2, db, o, sonarr)
         IN  rb2' = next.b /\ db' = next.db
    /\ UNCHANGED <<repair, hook, boot, rb, cfg, sonarr, radarr, req, ops>>

Rebuild2FetchMovies ==
    /\ rb2.pc = "fetch_movies"
    /\ \E o \in Outcomes :
         LET next == MoviesStep(rb2, db, o, radarr, 2)
         IN  rb2' = next.b /\ db' = next.db
    /\ UNCHANGED <<repair, hook, boot, rb, cfg, sonarr, radarr, req, ops>>

Rebuild2Return ==
    /\ rb2.pc = "done"
    /\ rb2' = IdleRebuild
    /\ UNCHANGED <<repair, hook, boot, rb, cfg, sonarr, radarr, db, req, ops>>

(***************************************************************************)
(* Initial states and the next-state relation                              *)
(***************************************************************************)
\* The store at the start is empty (first start) or holds the index of an
\* earlier run (the file survives restarts).
\* The episodes of series 1 at the start, as <<monitored, hasFile>>: all
\* monitored with their files; one monitored episode without a file; none
\* monitored, all with files.  The episodes of series 2 are monitored and
\* have their files.
InitProfiles ==
    { [e \in {1, 2, 3} |-> <<TRUE, TRUE>>],
      [e \in {1, 2, 3} |-> IF e = 1 THEN <<TRUE, FALSE>> ELSE <<TRUE, TRUE>>],
      [e \in {1, 2, 3} |-> <<FALSE, TRUE>>] }

\* the deletion modes that pass the start-up validation; one mode for both
\* kinds keeps the configurations to three
Configs == {[series |-> m, season |-> m] : m \in Modes}

Init ==
    /\ repair = NoRepair
    /\ cfg \in Configs
    /\ \E ended1 \in BOOLEAN, st \in InitProfiles :
         sonarr = [series |-> SeriesIds,
                   ended |-> [s \in SeriesIds |-> IF s = 1 THEN ended1 ELSE TRUE],
                   seasonMon |-> [k \in SeasonKeys |-> TRUE],
                   epMon |-> [e \in EpisodeIds |-> IF e <= 3 THEN st[e][1] ELSE TRUE],
                   epFile |-> [e \in EpisodeIds |-> IF e <= 3 THEN st[e][2] ELSE TRUE]]
    /\ radarr = MovieIds
    /\ db \in {EmptyStore, Rebuilt(sonarr, radarr)}
    /\ rb = IdleRebuild
    /\ req = [h \in Handlers |-> IdleReq]
    /\ ops = 0
    /\ hook = IdleHook
    /\ boot = Serving(1)
    /\ rb2 = IdleRebuild

\* no request is being handled
HandlersQuiet == \A h \in Handlers : req[h].pc = "idle"
\* no rebuild is running
RebuildQuiet == rb.pc = "idle"

\* Requests and rebuilds one at a time (the handlers and the scheduler's
\* job do not overlap in this specification).
Next ==
    \/ \E h \in Handlers, n \in Notes : RebuildQuiet /\ Receive(h, n)
    \/ \E h \in Handlers : Resend(h)
    \/ \E h \in Handlers : Reply(h)
    \/ \E h \in Handlers : ViaMapSelect(h)
    \/ \E h \in Handlers : ViaMapGet(h)
    \/ \E h \in Handlers : FindTvdb(h)
    \/ \E h \in Handlers : FindTitle(h)
    \/ \E h \in Handlers : FilesGet(h)
    \/ \E h \in Handlers : FileDelete(h)
    \/ \E h \in Handlers : CheckGet(h)
    \/ \E h \in Handlers : SeriesDelete(h)
    \/ \E h \in Handlers : SeasonPut(h)
    \/ \E h \in Handlers : EpisodeGet(h)
    \/ \E h \in Handlers : EpisodePut(h)
    \/ \E h \in Handlers : EpisodeFileDelete(h)
    \/ \E h \in Handlers : MovieGet(h)
    \/ \E h \in Handlers : MovieDelete(h)
    \/ HandlersQuiet /\ RebuildBegin
    \/ RebuildFetchSeries
    \/ RebuildFetchEpisodes
    \/ RebuildFetchMovies
    \/ RebuildReturn

Spec == Init /\ [][Next]_vars

(***************************************************************************)
(* /sonarr requests one at a time on a catalog that does not change        *)
(***************************************************************************)
InitHook ==
    /\ repair = NoRepair
    /\ cfg = [series |-> 1, season |-> 1]
    /\ \E present \in {{1}, {1, 2}} :
         sonarr = [series |-> present,
                   ended |-> [s \in SeriesIds |-> FALSE],
                   seasonMon |-> [k \in SeasonKeys |-> TRUE],
                   epMon |-> [e \in EpisodeIds |-> TRUE],
                   epFile |-> [e \in EpisodeIds |-> TRUE]]
    /\ radarr = MovieIds
    /\ db \in {EmptyStore, Rebuilt(sonarr, radarr)}
    /\ rb = IdleRebuild
    /\ req = [h \in Handlers |-> IdleReq]
    /\ ops = 0
    /\ hook = IdleHook
    /\ boot = Serving(1)
    /\ rb2 = IdleRebuild

NextHook ==
    \/ \E n \in HookNotes : HookReceive(n)
    \/ HookSeriesAddGet
    \/ HookReply

SpecHook == InitHook /\ [][NextHook]_vars

(***************************************************************************)
(* The start of the process, for every content of config.py                *)
(***************************************************************************)
InitBoot ==
    /\ repair = NoRepair
    /\ cfg \in [series : ModeSettings, season : ModeSettings]
    /\ sonarr = [series |-> SeriesIds,
                 ended |-> [s \in SeriesIds |-> FALSE],
                 seasonMon |-> [k \in SeasonKeys |-> TRUE],
                 epMon |-> [e \in EpisodeIds |-> TRUE],
                 epFile |-> [e \in EpisodeIds |-> TRUE]]
    /\ radarr = MovieIds
    /\ db = EmptyStore
    /\ rb = IdleRebuild
    /\ req = [h \in Handlers |-> IdleReq]
    /\ ops = 0
    /\ hook = IdleHook
    /\ \E i \in IntervalSettings, sc \in ScheduleSettings, a \in BOOLEAN :
         boot = Booting(i, sc, a)
    /\ rb2 = IdleRebuild

NextBoot ==
    \/ BootValidate
    \/ BootInitDatabase
    \/ boot.pc = "rebuild" /\ RebuildBegin
    \/ RebuildFetchSeries
    \/ RebuildFetchEpisodes
    \/ RebuildFetchMovies
    \/ BootRebuilt
    \/ BootSetupScheduler
    \/ BootServe

SpecBoot == InitBoot /\ [][NextBoot]_vars

(***************************************************************************)
(* Rebuilds by build_provider_map of sonarr.py, one at a time, on a store  *)
(* in which series 2 has been marked completed                             *)
(***************************************************************************)
InitStatus ==
    /\ repair = NoRepair
    /\ cfg \in Configs
    /\ \E ended1 \in BOOLEAN, st \in InitProfiles :
         sonarr = [series |-> SeriesIds,
                   ended |-> [s \in SeriesIds |-> IF s = 1 THEN ended1 ELSE TRUE],
                   seasonMon |-> [k \in SeasonKeys |-> TRUE],
                   epMon |-> [e \in EpisodeIds |-> IF e <= 3 THEN st[e][1] ELSE TRUE],
                   epFile |-> [e \in EpisodeIds |-> IF e <= 3 THEN st[e][2] ELSE TRUE]]
    /\ radarr = MovieIds
    /\ db \in {EmptyStore, SetSeriesCompleted(Rebuilt(sonarr, radarr), 2)}
    /\ rb = IdleRebuild
    /\ req = [h \in Handlers |-> IdleReq]
    /\ ops = 0
    /\ hook = IdleHook
    /\ boot = Serving(1)
    /\ rb2 = IdleRebuild

NextStatus ==
    \/ RebuildBeginStatus
    \/ RebuildFetchSeries
    \/ RebuildFetchEpisodes
    \/ RebuildFetchMovies
    \/ RebuildReturn

SpecStatus == InitStatus /\ [][NextStatus]_vars

(***************************************************************************)
(* Requests to /jellyfin and two jobs of the scheduler, all overlapping:   *)
(* Flask serves each request in a thread of its own and the scheduler runs *)
(* 'scheduled_refresh_0' and 'scheduled_refresh_1' in threads of its pool. *)
(* The notifications are of episodes, whose handling starts with the       *)
(* lookup in episode_map.                                                  *)
(***************************************************************************)
ConcNotes ==
    { Deleted("Episode", "Pilot", "show a", 1, 1, "11", ""),
      Deleted("Episode", "Pilot", "SHOW B", 1, 2, "13", "") }

InitConc ==
    /\ repair = NoRepair
    /\ cfg = [series |-> 1, season |-> 1]
    /\ sonarr = [series |-> SeriesIds,
                 ended |-> [s \in SeriesIds |-> TRUE],
                 seasonMon |-> [k \in SeasonKeys |-> TRUE],
                 epMon |-> [e \in EpisodeIds |-> TRUE],
                 epFile |-> [e \in EpisodeIds |-> TRUE]]
    /\ radarr = MovieIds
    /\ db \in {EmptyStore, Rebuilt(sonarr, radarr)}
    /\ rb = IdleRebuild
    /\ rb2 = IdleRebuild
    /\ req = [h \in Handlers |-> IdleReq]
    /\ ops = 0
    /\ hook = IdleHook
    /\ boot = Serving(2)

NextConc ==
    \/ \E h \in Handlers, n \in ConcNotes : Receive(h, n)
    \/ \E h \in Handlers : Reply(h)
    \/ \E h \in Handlers : ViaMapSelect(h)
    \/ \E h \in Handlers : ViaMapGet(h)
    \/ \E h \in Handlers : FindTitle(h)
    \/ \E h \in Handlers : EpisodeGet(h)
    \/ \E h \in Handlers : EpisodePut(h)
    \/ \E h \in Handlers : EpisodeFileDelete(h)
    \/ RebuildBegin
    \/ RebuildFetchSeries
    \/ RebuildFetchEpisodes
    \/ RebuildFetchMovies
    \/ RebuildReturn
    \/ Rebuild2Begin
    \/ Rebuild2FetchSeries
    \/ Rebuild2FetchEpisodes
    \/ Rebuild2FetchMovies
    \/ Rebuild2Return

SpecConc == InitConc /\ [][NextConc]_vars

(***************************************************************************)
(* Changes of Sonarr's catalog, each reported to /sonarr and handled       *)
(* without a failure, from a freshly rebuilt index                         *)
(***************************************************************************)
InitSync ==
    /\ repair = NoRepair
    /\ cfg = [series |-> 1, season |-> 1]
    /\ \E present \in {{1}, {1, 2}}, files \in BOOLEAN :
         sonarr = [series |-> present,
                   ended |-> [s \in SeriesIds |-> FALSE],
                   seasonMon |-> [k \in SeasonKeys |-> k[1] \in present],
                   epMon |-> [e \in EpisodeIds |-> EpSeries[e] \in present],
                   epFile |-> [e \in EpisodeIds |-> files /\ EpSeries[e] \in present]]
    /\ radarr = MovieIds
    /\ db = Rebuilt(sonarr, radarr)
    /\ rb = IdleRebuild
    /\ rb2 = IdleRebuild
    /\ req = [h \in Handlers |-> IdleReq]
    /\ ops = 0
    /\ hook = IdleHook
    /\ boot = Serving(1)

NextSync ==
    \/ SonarrDownload
    \/ SonarrEpisodeFileDelete
    \/ SonarrSeriesDelete
    \/ SonarrSeriesAdd
    \/ SyncSeriesAddGet
    \/ HookReply

SpecSync == InitSync /\ [][NextSync]_vars

(***************************************************************************)
(* Changes of Sonarr's catalog reported to /sonarr while a rebuild of the  *)
(* scheduler is in its transaction                                         *)
(***************************************************************************)
InitOverlap ==
    /\ repair = NoRepair
    /\ cfg = [series |-> 1, season |-> 1]
    /\ \E present \in {{1}, {1, 2}} :
         sonarr = [series |-> present,
                   ended |-> [s \in SeriesIds |-> FALSE],
                   seasonMon |-> [k \in SeasonKeys |-> k[1] \in present],
                   epMon |-> [e \in EpisodeIds |-> EpSeries[e] \in present],
                   epFile |-> [e \in EpisodeIds |-> EpSeries[e] \in present]]
    /\ radarr = MovieIds
    /\ db = Rebuilt(sonarr, radarr)
    /\ rb = IdleRebuild
    /\ rb2 = IdleRebuild
    /\ req = [h \in Handlers |-> IdleReq]
    /\ ops = 0
    /\ hook = IdleHook
    /\ boot = Serving(1)

NextOverlap ==
    \/ InTx(rb) /\ SonarrDownload
    \/ InTx(rb) /\ SonarrEpisodeFileDelete
    \/ InTx(rb) /\ SonarrSeriesDelete
    \/ HookReply
    \/ RebuildBegin
    \/ RebuildFetchSeries
    \/ RebuildFetchEpisodes
    \/ RebuildFetchMovies
    \/ RebuildReturn

SpecOverlap == InitOverlap /\ [][NextOverlap]_vars

(***************************************************************************)
(* Two /jellyfin requests handled at once: app.run serves each request in  *)
(* a thread of its own.  Aggressive mode, Season notifications for the two *)
(* seasons of 'Show A'.                                                    *)
(***************************************************************************)
SeasonHandlers == {1, 2}

InitSeasons ==
    /\ repair = NoRepair
    /\ cfg = [series |-> 2, season |-> 2]
    /\ \E files \in BOOLEAN :
         sonarr = [series |-> SeriesIds,
                   ended |-> [s \in SeriesIds |-> TRUE],
                   seasonMon |-> [k \in SeasonKeys |-> TRUE],
                   epMon |-> [e \in EpisodeIds |-> TRUE],
                   epFile |-> [e \in EpisodeIds |-> files]]
    /\ radarr = MovieIds
    /\ db = Rebuilt(sonarr, radarr)
    /\ rb = IdleRebuild
    /\ rb2 = IdleRebuild
    /\ req = [h \in SeasonHandlers |-> IdleReq]
    /\ ops = 0
    /\ hook = IdleHook
    /\ boot = Serving(1)

NextSeasons ==
    \/ \E h \in SeasonHandlers,
          n \in {k \in SeasonNotes : Lower(k.seriesName) = "show a"} : Receive(h, n)
    \/ \E h \in SeasonHandlers : Reply(h)
    \/ \E h \in SeasonHandlers : FindTitle(h)
    \/ \E h \in SeasonHandlers : FilesGet(h)
    \/ \E h \in SeasonHandlers : FileDelete(h)
    \/ \E h \in SeasonHandlers : SeasonPut(h)

SpecSeasons == InitSeasons /\ [][NextSeasons]_vars

(***************************************************************************)
(* json_repair applied to every raw body of at most MaxLen characters      *)
(***************************************************************************)
InitRepair ==
    /\ cfg = [series |-> 1, season |-> 1]
    /\ sonarr = [series |-> SeriesIds,
                 ended |-> [s \in SeriesIds |-> FALSE],
                 seasonMon |-> [k \in SeasonKeys |-> TRUE],
                 epMon |-> [e \in EpisodeIds |-> TRUE],
                 epFile |-> [e \in EpisodeIds |-> TRUE]]
    /\ radarr = MovieIds
    /\ db = EmptyStore
    /\ rb = IdleRebuild
    /\ rb2 = IdleRebuild
    /\ req = [h \in Handlers |-> IdleReq]
    /\ ops = 0
    /\ hook = IdleHook
    /\ boot = Serving(1)
    /\ \E raw \in Bodies : repair = [NoRepair EXCEPT !.pc = "called", !.raw = raw]

NextRepair ==
    \/ JsonRepairCall
    \/ JsonRepairDone

SpecRepair == InitRepair /\ [][NextRepair]_vars

(***************************************************************************)
(* Properties                                                              *)
(***************************************************************************)
\* the handler has computed its response
Answered(h) == req[h].pc = "done"

\* the requests of r that change a catalog
Mutations(r) == SelectSeq(r.calls, LAMBDA c : c.m \in {"PUT", "DELETE"})

\* r has sent the request
Issued(r, m, res, id) == \E i \in 1..Len(r.calls) : r.calls[i] = Call(m, res, id)

\* the episodes of series s that have a file in catalog cat
WithFile(cat, s) == {e \in EpisodeIds : EpSeries[e] = s /\ cat.epFile[e]}

C2_AlwaysSuccess ==
    \A h \in Handlers : Answered(h) => req[h].status \in 200..299

\* C3: a body that is still not JSON after the repair is answered 200 and
\* no PUT or DELETE is sent.
C3_UndecodableAcknowledged ==
    \A h \in Handlers :
        (Answered(h) /\ req[h].note.body # "json") =>
            /\ req[h].status = 200
            /\ Mutations(req[h]) = << >>

\* C4: an Episode notification whose provider id is not in episode_map and
\* whose series name matches no series of the catalog sends no PUT or
\* DELETE and is answered 200.
C4_UnresolvedEpisodeAcknowledged ==
    \A h \in Handlers :
        LET r == req[h]
        IN  ( /\ Answered(h)
              /\ r.note.body = "json" /\ r.note.ntype = "ItemDeleted"
              /\ r.note.kind = "Episode" /\ r.note.pids = "map"
              /\ MapLookup(db.episode_map, r.note.tvdb) = 0
              /\ TitleMatch(ApiSeriesList(r.pre.sonarr), SearchTitle(r.note)) = NoSeries )
            => /\ Mutations(r) = << >>
               /\ r.status = 200

\* C5: no response of jellyfin_webhook has a 5xx status, whatever the
\* catalogs answer.
C5_NoServerError ==
    \A h \in Handlers : Answered(h) => req[h].status < 500

\* C6: after a rebuild whose series fetch failed, the committed series,
\* seasons, episodes, movies and episode_map are what they were when the
\* rebuild started.
C6_FailedSeriesFetchKeepsIndex ==
    (rb.pc = "done" /\ rb.result = "series_failed") => TablesOf(db) = rb.before

\* a rebuild that failed at the series fetch over a populated index
W_C6 ==
    /\ rb.pc = "done" /\ rb.result = "series_failed"
    /\ rb.before.series # {} /\ rb.before.episode_map # << >>

\* the provider ids of the episodes the rebuild fetched
FetchedKeys == {p[1] : p \in rb.fetched}

\* the provider ids looked up: those fetched, those of the index before the
\* rebuild, those of all episodes
LookupKeys ==
    FetchedKeys \cup DOMAIN rb.before.episode_map
                \cup {Str(EpTvdb[e]) : e \in EpisodeIds}

\* C7: right after a committed rebuild, the lookup of a provider id that an
\* episode of the fetched snapshot carries yields a series that owns such an
\* episode, and the lookup of any other provider id yields no entry.
C7_RebuiltMapMatchesSnapshot ==
    (rb.pc = "done" /\ rb.result = "committed") =>
        \A key \in LookupKeys :
            LET sid == MapLookup(db.episode_map, key)
            IN  IF key \in FetchedKeys THEN <<key, sid>> \in rb.fetched
                ELSE sid = 0

\* a committed rebuild whose snapshot lacks a provider id that the index
\* held before
W_C7 ==
    /\ rb.pc = "done" /\ rb.result = "committed"
    /\ FetchedKeys # {}
    /\ \E key \in DOMAIN rb.before.episode_map : key \notin FetchedKeys

\* C8: in mode 1 a Series notification for a resolved series sends no
\* DELETE of the series and no PUT, leaves every monitored flag as it was
\* and the series in the catalog; when all its calls succeed, every episode
\* file of the series has been deleted.
C8_SafeSeriesKeepsEntry ==
    \A h \in Handlers :
        LET r == req[h]
            sid == r.series.id
        IN  ( /\ Answered(h) /\ r.note.kind = "Series" /\ sid # 0
              /\ cfg.series = 1 )
            => /\ \A i \in 1..Len(r.calls) :
                    r.calls[i].m # "PUT" /\ r.calls[i] # Call("DELETE", "series", sid)
               /\ ApiSeriesById(sonarr, sid).id = sid
               /\ sonarr.epMon = r.pre.sonarr.epMon
               /\ sonarr.seasonMon = r.pre.sonarr.seasonMon
               /\ r.clean =>
                    /\ WithFile(sonarr, sid) = {}
                    /\ \A e \in WithFile(r.pre.sonarr, sid) :
                          Issued(r, "DELETE", "episodefile", FileOf(e))
                    /\ \A e \in EpisodeIds :
                          EpSeries[e] # sid => sonarr.epFile[e] = r.pre.sonarr.epFile[e]

\* a Series notification handled in mode 1 that deleted the files of a
\* series that had some
W_C8 ==
    \E h \in Handlers :
        /\ Answered(h) /\ req[h].note.kind = "Series" /\ req[h].series.id # 0
        /\ cfg.series = 1 /\ req[h].clean
        /\ WithFile(req[h].pre.sonarr, req[h].series.id) # {}
        /\ WithFile(sonarr, req[h].series.id) = {}

\* C9: in mode 2 a Series notification for a resolved series, all calls
\* succeeding, deletes every episode file of the series, then deletes the
\* series, which GET series/{id} no longer finds.
C9_AggressiveSeriesRemovesEntry ==
    \A h \in Handlers :
        LET r == req[h]
            sid == r.series.id
        IN  ( /\ Answered(h) /\ r.note.kind = "Series" /\ sid # 0
              /\ cfg.series = 2 /\ r.clean )
            => /\ ApiSeriesById(sonarr, sid) = NoSeries
               /\ \E k \in 1..Len(r.calls) :
                    /\ r.calls[k] = Call("DELETE", "series", sid)
                    /\ \A e \in WithFile(r.pre.sonarr, sid) :
                          \E i \in 1..(k - 1) :
                              r.calls[i] = Call("DELETE", "episodefile", FileOf(e))
                    /\ \A i \in 1..Len(r.calls) :
                          r.calls[i].r = "episodefile" => i < k

\* a Series notification handled in mode 2 that deleted files and then the
\* series
W_C9 ==
    \E h \in Handlers :
        /\ Answered(h) /\ req[h].note.kind = "Series" /\ req[h].series.id # 0
        /\ cfg.series = 2 /\ req[h].clean
        /\ WithFile(req[h].pre.sonarr, req[h].series.id) # {}
        /\ req[h].series.id \notin sonarr.series

\* C10: in mode 3 a Season notification for a monitored season whose
\* monitored episodes all had a file when it arrived, all calls succeeding,
\* ends with the season's files deleted and the season unmonitored.
C10_SmartSeasonUnmonitors ==
    \A h \in Handlers :
        LET r == req[h]
            sid == r.series.id
            n == r.note.season
        IN  ( /\ Answered(h) /\ r.note.kind = "Season" /\ sid # 0
              /\ cfg.season = 3 /\ r.clean
              /\ n \in SeasonsOf[sid]
              /\ r.pre.sonarr.seasonMon[<<sid, n>>]
              /\ AllMonitoredHaveFile(ApiEpisodesOfSeason(r.pre.sonarr, sid, n)) )
            => /\ \A e \in WithFile(sonarr, sid) : EpSeason[e] # n
               /\ ~sonarr.seasonMon[<<sid, n>>]

\* the monitored episodes of season n of series s that have no file in cat
MonitoredWithoutFile(cat, s, n) ==
    {e \in EpisodeIds : /\ EpSeries[e] = s /\ EpSeason[e] = n /\ s \in cat.series
                        /\ cat.epMon[e] /\ ~cat.epFile[e]}

\* C11: in mode 3 a Season notification for a season of which a monitored
\* episode had no file when it arrived sends no PUT and leaves the monitored
\* flag of every season and episode as it was; when all its calls succeed
\* the season's files, and only they, have been deleted.
C11_SmartIncompleteSeasonFilesOnly ==
    \A h \in Handlers :
        LET r == req[h]
            sid == r.series.id
            n == r.note.season
        IN  ( /\ Answered(h) /\ r.note.kind = "Season" /\ sid # 0
              /\ cfg.season = 3
              /\ MonitoredWithoutFile(r.pre.sonarr, sid, n) # {} )
            => /\ sonarr.seasonMon = r.pre.sonarr.seasonMon
               /\ sonarr.epMon = r.pre.sonarr.epMon
               /\ sonarr.series = r.pre.sonarr.series
               /\ \A i \in 1..Len(r.calls) :
                     r.calls[i].m # "PUT" /\ r.calls[i] # Call("DELETE", "series", sid)
               /\ r.clean =>
                     \A e \in EpisodeIds :
                         sonarr.epFile[e] =
                             IF EpSeries[e] = sid /\ EpSeason[e] = n THEN FALSE
                             ELSE r.pre.sonarr.epFile[e]

\* a Season notification handled in mode 3 for a season with a monitored
\* episode without a file and another episode whose file it deleted
W_C11 ==
    \E h \in Handlers :
        LET r == req[h]
        IN  /\ Answered(h) /\ r.note.kind = "Season" /\ r.series.id # 0
            /\ cfg.season = 3 /\ r.clean
            /\ MonitoredWithoutFile(r.pre.sonarr, r.series.id, r.note.season) # {}
            /\ \E e \in WithFile(r.pre.sonarr, r.series.id) :
                   EpSeason[e] = r.note.season /\ ~sonarr.epFile[e]
            /\ r.pre.sonarr.seasonMon[<<r.series.id, r.note.season>>]

\* C12: in mode 3 a Series notification for a resolved series, all calls
\* succeeding, deletes the series' files, and removes the series exactly
\* when the series was ended and each of its monitored episodes had a file
\* when the notification arrived.
C12_SmartSeriesRemovesIffComplete ==
    \A h \in Handlers :
        LET r == req[h]
            sid == r.series.id
        IN  ( /\ Answered(h) /\ r.note.kind = "Series" /\ sid # 0
              /\ cfg.series = 3 /\ r.clean )
            => /\ WithFile(sonarr, sid) = {}
               /\ (sid \notin sonarr.series) <=>
                     ( /\ r.pre.sonarr.ended[sid]
                       /\ AllMonitoredHaveFile(ApiEpisodes(r.pre.sonarr, sid)) )

\* C13: an Episode notification whose provider id is in episode_map and
\* whose season and episode number name an episode of the mapped series,
\* all calls succeeding, is answered 200 with that episode unmonitored and
\* without a file; the PUT is sent exactly when the episode was monitored,
\* the DELETE of its file exactly when it had one, nothing else is changed.
C13_MappedEpisodeUnmonitoredAndDeleted ==
    \A h \in Handlers :
        LET r == req[h]
            sid == MapLookup(db.episode_map, r.note.tvdb)
        IN  \A e \in EpisodeIds :
              ( /\ Answered(h) /\ r.note.kind = "Episode" /\ r.note.pids # "null"
                /\ r.note.ntype = "ItemDeleted" /\ r.note.body = "json"
                /\ r.note.tvdb # "" /\ sid # 0 /\ sid \in r.pre.sonarr.series
                /\ EpSeries[e] = sid /\ EpSeason[e] = r.note.season
                /\ EpNumber[e] = r.note.episode
                /\ r.clean )
              => /\ r.status = 200
                 /\ ~sonarr.epMon[e] /\ ~sonarr.epFile[e]
                 /\ Issued(r, "PUT", "episode", e) <=> r.pre.sonarr.epMon[e]
                 /\ Issued(r, "DELETE", "episodefile", FileOf(e)) <=> r.pre.sonarr.epFile[e]
                 /\ \A i \in 1..Len(Mutations(r)) :
                       Mutations(r)[i] \in {Call("PUT", "episode", e),
                                            Call("DELETE", "episodefile", FileOf(e))}
                 /\ \A x \in EpisodeIds \ {e} :
                       /\ sonarr.epMon[x] = r.pre.sonarr.epMon[x]
                       /\ sonarr.epFile[x] = r.pre.sonarr.epFile[x]
                 /\ sonarr.seasonMon = r.pre.sonarr.seasonMon
                 /\ sonarr.series = r.pre.sonarr.series
                 /\ radarr = r.pre.radarr

\* an Episode notification resolved through episode_map whose episode was
\* monitored and had a file, and is now unmonitored and without a file
W_C13 ==
    \E h \in Handlers, e \in EpisodeIds :
        LET r == req[h]
            sid == MapLookup(db.episode_map, r.note.tvdb)
        IN  /\ Answered(h) /\ r.note.kind = "Episode" /\ r.clean
            /\ r.note.tvdb # "" /\ sid # 0 /\ r.mapped = sid /\ r.target.id = e
            /\ EpSeries[e] = sid /\ EpSeason[e] = r.note.season
            /\ EpNumber[e] = r.note.episode
            /\ r.pre.sonarr.epMon[e] /\ r.pre.sonarr.epFile[e]
            /\ ~sonarr.epMon[e] /\ ~sonarr.epFile[e]

C15_SonarrHookAlways200 ==
    hook.pc = "done" => hook.status = 200

\* a 'Download' whose episode list has an element that is not an object
\* has raised inside the handler and been answered 200
W_C15 ==
    /\ hook.pc = "done" /\ hook.status = 200
    /\ hook.text = "OK (error handled)"
    /\ hook.note.event = "Download" /\ hook.note.episodes.ids = <<14, -1, 11>>

\* C16: when both REFRESH_INTERVAL_MINUTES and REFRESH_SCHEDULE are set the
\* process exits at the validation: it registers no job, runs no rebuild
\* and never serves; and no process has an interval job and a cron job.
C16_BothRefreshSettingsRejected ==
    /\ (boot.interval # "none" /\ boot.schedule.kind # "none") =>
          /\ boot.pc \in {"import", "exited"}
          /\ boot.jobs = {}
          /\ rb = IdleRebuild
    /\ ~(\E j1, j2 \in boot.jobs : j1.trigger = "interval" /\ j2.trigger = "cron")

\* a process configured with a valid interval and a valid schedule has
\* exited
W_C16 ==
    /\ boot.interval = "valid" /\ boot.schedule = [kind |-> "list", n |-> 2]
    /\ ModesValid(cfg) /\ boot.pc = "exited"

\* C17 as stated: after build_provider_map has executed its DELETEs and
\* returned, the rows of series_status that existed at the call are gone
\* if and only if clear_status was true, and without it they are all
\* unchanged.
C17_StatusClearedIffDirective ==
    (rb.pc = "done" /\ rb.status0 # {} /\ rb.result \notin {"no_store", "locked"}) =>
        /\ (db.series_status = {}) <=> rb.clear
        /\ ~rb.clear => db.series_status = rb.status0

\* C17 amended: after build_provider_map has returned, series_status is
\* empty if clear_status was true and the rebuild committed, and is
\* otherwise what it was at the call; every setting that existed at the
\* call still exists, and none but last_refresh has another value.
C17_StatusClearedIffDirectiveAndCommit ==
    rb.pc = "done" =>
        /\ db.series_status = IF rb.clear /\ rb.result = "committed"
                               THEN {} ELSE rb.status0
        /\ \A k \in DOMAIN rb.settings0 :
              /\ k \in DOMAIN db.settings
              /\ k # "last_refresh" => db.settings[k] = rb.settings0[k]

\* a rebuild called with clear_status on a store with a completion row has
\* committed and the row is gone, the settings being kept
W_C17 ==
    /\ rb.pc = "done" /\ rb.clear /\ rb.result = "committed"
    /\ rb.status0 # {} /\ db.series_status = {}
    /\ "last_refresh" \in DOMAIN rb.settings0
    /\ "last_refresh" \in DOMAIN db.settings

\* C18: after a rebuild whose series phase succeeded and whose movie
\* request failed (a non-200 answer or an exception of the request), the
\* store holds the series and season rows of the fetched list and the
\* episode_map entries of the fetched episodes.
C18_MovieFailureKeepsSeriesData ==
    (rb.pc = "done" /\ rb.movies \in {"error", "raise"}) =>
        LET list == ApiSeriesList(sonarr)
        IN  /\ db.series = {SeriesRow(list[i]) : i \in 1..Len(list)}
            /\ db.seasons = UNION {SeasonRows(list[i]) : i \in 1..Len(list)}
            /\ \A key \in FetchedKeys :
                  <<key, MapLookup(db.episode_map, key)>> \in rb.fetched

\* C18 for a non-200 answer of the movie request alone
C18_MovieNon200KeepsSeriesData ==
    (rb.pc = "done" /\ rb.movies = "error") =>
        LET list == ApiSeriesList(sonarr)
        IN  /\ db.series = {SeriesRow(list[i]) : i \in 1..Len(list)}
            /\ db.seasons = UNION {SeasonRows(list[i]) : i \in 1..Len(list)}
            /\ \A key \in FetchedKeys :
                  <<key, MapLookup(db.episode_map, key)>> \in rb.fetched

\* the lookups in map answer as the episodes fetched by the rebuild b
\* say: a provider id that a fetched episode carries yields a series that
\* owns such an episode, any other provider id yields no entry
MapMatches(map, b) ==
    LET keys == {p[1] : p \in b.fetched}
    IN  \A key \in keys \cup DOMAIN map \cup {Str(EpTvdb[e]) : e \in EpisodeIds} :
            IF key \in keys THEN <<key, MapLookup(map, key)>> \in b.fetched
            ELSE MapLookup(map, key) = 0

\* C19: a lookup of find_series_via_map made while a rebuild was between
\* its DELETEs and its commit read episode_map as it was when that rebuild
\* started, and a lookup made after a rebuild had committed read the map
\* of the episodes that rebuild fetched.
C19_ReadSeesWholeIndex ==
    \A h \in Handlers : \A b \in {rb, rb2} :
        LET r == req[h]
        IN  /\ (r.during # 0 /\ b.opno = r.during)
                  => r.seen = b.before.episode_map
            /\ (r.after # 0 /\ b.opno = r.after) => MapMatches(r.seen, b)

\* a lookup found its entry in the filled index while a rebuild had
\* deleted every row and written back only a part of them
W_C19 ==
    \E h \in Handlers :
        /\ req[h].during = rb.opno /\ InTx(rb)
        /\ req[h].mapped # 0
        /\ rb.tx.episode_map # << >>
        /\ DOMAIN rb.tx.episode_map # DOMAIN rb.before.episode_map

\* C20: two rebuilds are never both between their DELETEs and their
\* commit, and after a commit the store holds the series of the list and
\* the map of the episodes that the committing rebuild fetched.
C20_RebuildsMutuallyExclusive ==
    /\ ~(InTx(rb) /\ InTx(rb2))
    /\ \A b \in {rb, rb2} :
          (b.pc = "done" /\ b.result = "committed" /\ b.opno = LastCommit(db))
          => /\ MapMatches(db.episode_map, b)
             /\ db.series = {SeriesRow(ApiSeriesList(sonarr)[i]) :
                               i \in 1..Len(ApiSeriesList(sonarr))}

\* the second job was started while the first was in its transaction and
\* gave up at its first DELETE; the first has committed since
W_C20 ==
    /\ rb.pc = "done" /\ rb.result = "committed"
    /\ rb2.pc = "done" /\ rb2.result = "locked" /\ rb2.opno > rb.opno
    /\ db.episode_map # << >>

\* the episodes whose files a notification handled by r is about: those of
\* the series that had a file when the request arrived, for a Season those
\* of the notification's season
FilesOfItem(r) ==
    {e \in WithFile(r.pre.sonarr, r.series.id) :
        r.note.kind = "Season" => EpSeason[e] = r.note.season}

\* C21: when the handling of a Series or Season notification has sent one
\* DELETE of an episode file, it has sent the DELETE of every file of the
\* item whatever the calls answered, and in series mode 2 the DELETE of
\* the series.
C21_FailedCallDoesNotAbortItem ==
    \A h \in Handlers :
        LET r == req[h]
        IN  ( /\ Answered(h) /\ r.note.kind \in {"Series", "Season"}
              /\ r.series.id # 0
              /\ \E e \in FilesOfItem(r) : Issued(r, "DELETE", "episodefile", FileOf(e)) )
            => /\ \A e \in FilesOfItem(r) : Issued(r, "DELETE", "episodefile", FileOf(e))
               /\ (r.note.kind = "Series" /\ cfg.series = 2)
                    => Issued(r, "DELETE", "series", r.series.id)

\* C22: after a Download or EpisodeFileDelete event whose episodes are a
\* list and whose series is named, handled with the store open, every
\* episode of the list that carries a tvdbId has its entry written
\* (Download: the event's series) or removed (EpisodeFileDelete), whatever
\* the other elements of the list are.
C22_BatchSurvivesFailedEpisode ==
    LET n == hook.note
        ids == n.episodes.ids
    IN  ( /\ hook.pc = "done" /\ hook.text # "DB error" /\ n.body = "json"
          /\ n.event \in {"Download", "EpisodeFileDelete"}
          /\ n.episodes.has /\ n.episodes.typed
          /\ n.series.has /\ n.series.id # 0 )
        => \A i \in 1..Len(ids) :
              ids[i] > 0 =>
                 IF n.event = "Download"
                 THEN MapLookup(db.episode_map, Str(ids[i])) = n.series.id
                 ELSE MapLookup(db.episode_map, Str(ids[i])) = 0

\* the series that wrote the provider id key last in the rebuild rb: the
\* last series of the fetched list with a fetched episode carrying it
LastWriter(key) ==
    LET list == ApiSeriesList(sonarr)
        at == {i \in 1..Len(list) : <<key, list[i].id>> \in rb.fetched}
    IN  list[CHOOSE i \in at : \A j \in at : j <= i].id

\* C23: after a committed rebuild the entry of every provider id that a
\* fetched episode carries names the series that was written last with
\* that id (episode_map being a table keyed by the provider id, it holds
\* one series per id).
C23_RebuildLastWriteWins ==
    (rb.pc = "done" /\ rb.result = "committed") =>
        \A key \in FetchedKeys : MapLookup(db.episode_map, key) = LastWriter(key)

\* C24: a request whose body decodes and whose NotificationType is not
\* 'ItemDeleted', or whose Item has no Type, is answered 200 at once: the
\* handler sends no request to a catalog, does not look into the store and
\* leaves both catalogs as they were.
C24_IgnoredNotificationCallsNothing ==
    \A h \in Handlers :
        LET r == req[h]
        IN  ( /\ r.pc # "idle" /\ r.note.body = "json"
              /\ (r.note.ntype # "ItemDeleted" \/ r.note.kind = "") )
            => /\ r.pc = "done" /\ r.status = 200
               /\ r.calls = << >>
               /\ sonarr = r.pre.sonarr /\ radarr = r.pre.radarr

\* a PlaybackStart notification for an episode that the index and the
\* catalog know has been answered
W_C24 ==
    \E h \in Handlers :
        /\ Answered(h) /\ req[h].note.body = "json"
        /\ req[h].note.ntype = "PlaybackStart" /\ req[h].note.kind = "Episode"
        /\ req[h].note.tvdb = "11" /\ db.episode_map # << >>
        /\ req[h].calls = << >> /\ req[h].status = 200

\* the notification handled by r is a deletion of an episode that carries
\* a provider id
EpisodeWithProviderId(r) ==
    /\ r.pc # "idle" /\ r.note.body = "json" /\ r.note.ntype = "ItemDeleted"
    /\ r.note.kind = "Episode" /\ r.note.pids # "null" /\ r.note.tvdb # ""

\* C25: for an Episode notification with a provider id, no catalog request
\* is sent before find_series_via_map has returned; the scan of the series
\* list (GET series) is sent only after it returned no series; when it
\* returned a series, that series is the resolved one and no scan is sent.
C25_MapBeforeTitleScan ==
    \A h \in Handlers :
        LET r == req[h]
        IN  EpisodeWithProviderId(r) =>
              /\ r.calls # << >> => r.viaMap # ""
              /\ Issued(r, "GET", "series", 0) => r.viaMap = "none"
              /\ Issued(r, "GET", "series/{id}", r.mapped)
                   => r.calls[1] = Call("GET", "series/{id}", r.mapped)
              /\ r.viaMap = "hit" =>
                   /\ r.series.id = r.mapped
                   /\ ~Issued(r, "GET", "series", 0)

\* the index held an entry for the episode, the request for the mapped
\* series failed, and the series was then resolved by the scan of the list
W_C25 ==
    \E h \in Handlers :
        /\ EpisodeWithProviderId(req[h]) /\ Answered(h)
        /\ req[h].mapped # 0 /\ req[h].viaMap = "none"
        /\ Issued(req[h], "GET", "series", 0)
        /\ req[h].series.id # 0

\* C26: the lookup by provider id (GET series?tvdbId=) is sent for Series
\* notifications only, and the scan of the series list for the title
\* match (GET series) for Season and Episode notifications only.
C26_LookupByKind ==
    \A h \in Handlers :
        LET r == req[h]
        IN  /\ Issued(r, "GET", "series?tvdbId", 0) => r.note.kind = "Series"
            /\ Issued(r, "GET", "series", 0) => r.note.kind \in {"Season", "Episode"}

\* C26 for the lookup by provider id alone
C26_ProviderIdLookupForSeriesOnly ==
    \A h \in Handlers :
        Issued(req[h], "GET", "series?tvdbId", 0) => req[h].note.kind = "Series"

\* C27: while and after a Season notification is handled, in every season
\* mode, each DELETE sent is that of a file of the notification's season of
\* the resolved series, every episode of another season or series has the
\* file it had, and the series entries of the catalog are those it had.
C27_SeasonTouchesOwnFilesOnly ==
    \A h \in Handlers :
        LET r == req[h]
            own(e) == EpSeries[e] = r.series.id /\ EpSeason[e] = r.note.season
        IN  ( /\ r.pc # "idle" /\ r.note.body = "json"
              /\ r.note.ntype = "ItemDeleted" /\ r.note.kind = "Season" )
            => /\ \A i \in 1..Len(r.calls) :
                    r.calls[i].m = "DELETE" =>
                       /\ r.calls[i].r = "episodefile"
                       /\ own(EpisodeOfFile(r.calls[i].id))
               /\ \A e \in EpisodeIds :
                    ~own(e) => sonarr.epFile[e] = r.pre.sonarr.epFile[e]
               /\ sonarr.series = r.pre.sonarr.series

\* a Season notification for season 1 of series 1 has been handled: the
\* file of episode 1 is gone, episode 3 of season 2 still has its file
W_C27 ==
    \E h \in Handlers :
        /\ Answered(h) /\ req[h].note.kind = "Season" /\ req[h].note.season = 1
        /\ req[h].series.id = 1 /\ req[h].clean
        /\ req[h].pre.sonarr.epFile[1] /\ ~sonarr.epFile[1]
        /\ req[h].pre.sonarr.epFile[3] /\ sonarr.epFile[3]

\* C28: no step of jellyfin_webhook changes the store: whenever a request
\* is received, moves on or is answered, every table (episode_map, series,
\* seasons, episodes, movies, settings, series_status) is left as it was.
C28_HandlerLeavesStore == [][req' # req => db' = db]_vars

\* an Episode notification has been answered after the lookup found its
\* entry in a filled index, which is still what the lookup read
W_C28 ==
    \E h \in Handlers :
        /\ Answered(h) /\ req[h].viaMap = "hit" /\ req[h].mapped # 0
        /\ req[h].seen # << >> /\ db.episode_map = req[h].seen
        /\ Len(req[h].calls) > 1

\* C29: from a freshly rebuilt index, after every change of the catalog
\* has been reported to /sonarr and handled, episode_map is the map that
\* build_provider_map would commit for the catalog as it is now.
C29_IncrementalEqualsRebuild ==
    hook.pc \in {"idle", "done"} =>
        db.episode_map = Rebuilt(sonarr, radarr).episode_map

\* a 'SeriesDelete' event naming a series has been handled
SeriesDeleteHandled ==
    /\ hook.pc = "done"
    /\ hook.note.body = "json"
    /\ hook.note.event = "SeriesDelete"
    /\ hook.note.series.has
    /\ hook.text = "OK"

\* C30: when sonarr_webhook has handled a 'SeriesDelete' event, episode_map
\* holds no entry of the event's series id, and every entry of any other
\* series that was there before the event is there unchanged; nothing else
\* is in the map.
C30_SeriesDeleteRemovesOwnEntriesOnly ==
    SeriesDeleteHandled =>
        /\ DOMAIN db.episode_map \subseteq DOMAIN hook.before
        /\ \A x \in DOMAIN hook.before :
             IF hook.before[x] = hook.note.series.id
             THEN x \notin DOMAIN db.episode_map
             ELSE x \in DOMAIN db.episode_map
                  /\ db.episode_map[x] = hook.before[x]

\* a 'SeriesDelete' event was handled on a map with entries of its series,
\* now gone, and entries of another series, still there
W_C30 ==
    /\ SeriesDeleteHandled
    /\ \E x \in DOMAIN hook.before : hook.before[x] = hook.note.series.id
    /\ \E x \in DOMAIN hook.before : hook.before[x] # hook.note.series.id
    /\ db.episode_map # << >>
    /\ db.episode_map # hook.before

\* C31: when build_provider_map has returned, the setting last_refresh
\* carries the stamp of this run if the run committed its snapshot, and the
\* settings are what they were at the call if it did not.
C31_TimestampIffCommitted ==
    rb.pc = "done" =>
        IF rb.result = "committed"
        THEN /\ "last_refresh" \in DOMAIN db.settings
             /\ db.settings["last_refresh"] = Str(rb.opno)
        ELSE db.settings = rb.settings0

\* the half of C31 that holds: a rebuild that did not commit leaves the
\* settings as they were at the call
C31_NoCommitNoTimestamp ==
    (rb.pc = "done" /\ rb.result # "committed") => db.settings = rb.settings0

\* the store failed find_series_via_map of handler h in this step: the
\* lookup ended with no request sent and a failure recorded
StoreFailsLookup(h) ==
    /\ req[h].pc = "via_map_select"
    /\ req'[h] # req[h]
    /\ ~req'[h].clean

\* C32: when the store cannot be opened or its SELECT fails,
\* find_series_via_map returns None: the handler sends no request for a
\* mapped series, is not answered 500, and goes on to find_series with the
\* title (answering 404 'Series not found' only when there is no title).
C32_StoreFailureFallsBackToTitle ==
    [][\A h \in Handlers :
         StoreFailsLookup(h) =>
             /\ req'[h].viaMap = "none"
             /\ req'[h].mapped = 0
             /\ req'[h].calls = req[h].calls
             /\ IF SearchTitle(req[h].note) # ""
                THEN req'[h].pc = "find_title"
                ELSE req'[h].pc = "done" /\ req'[h].status = 404]_vars

\* the store failed the lookup of an Episode whose provider id the index
\* holds, and the handler is about to resolve the series by title
W_C32 ==
    \E h \in Handlers :
        /\ req[h].pc = "find_title" /\ req[h].note.kind = "Episode"
        /\ req[h].viaMap = "none" /\ ~req[h].clean /\ req[h].calls = << >>
        /\ req[h].note.tvdb \in DOMAIN db.episode_map

\* a comma of t is followed by white space only and then by a closing
\* brace or bracket
CommaBeforeClose(t) ==
    \E i \in 1..Len(t) :
        /\ t[i] = ","
        /\ \E j \in (i + 1)..Len(t) :
             /\ t[j] \in {"}", "]"}
             /\ \A k \in (i + 1)..(j - 1) : t[k] \in {" ", "\n"}

\* C33: the text json_repair returns has no comma followed by white space
\* only and then a closing brace or bracket, and its last character is a
\* closing brace.
C33_NoCommaBeforeCloseAndEndsWithBrace ==
    repair.pc = "returned" =>
        /\ ~CommaBeforeClose(repair.text)
        /\ repair.text # << >>
        /\ repair.text[Len(repair.text)] = "}"

\* the half of C33 that holds: the text returned ends with a closing brace
C33_EndsWithBrace ==
    repair.pc = "returned" =>
        repair.text # << >> /\ repair.text[Len(repair.text)] = "}"

\* a colon of the line t is followed by blanks only and then by a comma
EmptyValue(t) ==
    \E i \in 1..Len(t) :
        /\ t[i] = ":"
        /\ \E j \in (i + 1)..Len(t) :
             /\ t[j] = ","
             /\ \A k \in (i + 1)..(j - 1) : t[k] = " "

\* t is a line of the form "key": , (a key, a colon, blanks, a comma)
KeyWithEmptyValue(t) ==
    /\ Len(t) >= 5
    /\ t[1] = "\"" /\ t[Len(t)] = ","
    /\ \E c \in 3..(Len(t) - 2) :
         /\ \A k \in 2..(c - 1) : t[k] = "1"
         /\ t[c] = "\"" /\ t[c + 1] = ":"
         /\ \A k \in (c + 2)..(Len(t) - 1) : t[k] = " "

\* the line t with everything after its first colon replaced by ' null,'
KeyWithNull(t) ==
    LET c == CHOOSE i \in 1..Len(t) : t[i] = ":" /\ \A j \in 1..(i - 1) : t[j] # ":"
    IN  SubSeq(t, 1, c) \o <<" ", "n", "u", "l", "l", ",">>

\* C34: no line json_repair emits, and no line of the text it returns, has
\* a colon followed by blanks only and then a comma; a body that is one
\* line of the form "key": , is emitted as the line "key": null,
C34_EmptyValuesBecomeNull ==
    repair.pc = "returned" =>
        /\ \A k \in 1..Len(repair.lines) : ~EmptyValue(repair.lines[k])
        /\ \A k \in 1..Len(SplitLines(repair.text)) :
              ~EmptyValue(SplitLines(repair.text)[k])
        /\ KeyWithEmptyValue(repair.raw) =>
              repair.lines = <<KeyWithNull(repair.raw)>>

\* json_repair has returned for a body that is the line "1":, and the
\* line emitted is "1": null,
W_C34 ==
    /\ repair.pc = "returned"
    /\ KeyWithEmptyValue(repair.raw)
    /\ EmptyValue(repair.raw)
    /\ repair.lines = <<KeyWithNull(repair.raw)>>
    /\ repair.lines # <<repair.raw>>

\* both handlers have answered Season notifications for different seasons
\* of one series, every request of both having succeeded
BothSeasonsHandled ==
    /\ \A h \in SeasonHandlers :
         /\ req[h].pc = "done" /\ req[h].status = 200 /\ req[h].clean
         /\ req[h].note.kind = "Season"
         /\ req[h].series.id # 0
    /\ req[1].series.id = req[2].series.id
    /\ req[1].note.season # req[2].note.season

\* C35: in Aggressive mode, when two Season notifications for different
\* seasons of one series have been handled, at once or one after the
\* other, both seasons are unmonitored in the series catalog.
C35_BothSeasonsUnmonitored ==
    (cfg.season = 2 /\ BothSeasonsHandled) =>
        \A h \in SeasonHandlers :
            ~sonarr.seasonMon[<<req[h].series.id, req[h].note.season>>]

\* the map holds what the event of note n asks for: the episodes of a
\* 'Download' mapped to its series, those of an 'EpisodeFileDelete' absent,
\* no entry of the series of a 'SeriesDelete'
Reflects(map, n) ==
    CASE n.event = "Download" ->
           \A i \in 1..Len(n.episodes.ids) :
               LET key == Str(n.episodes.ids[i])
               IN  key \in DOMAIN map /\ map[key] = n.series.id
      [] n.event = "EpisodeFileDelete" ->
           \A i \in 1..Len(n.episodes.ids) : Str(n.episodes.ids[i]) \notin DOMAIN map
      [] n.event = "SeriesDelete" ->
           \A x \in DOMAIN map : map[x] # n.series.id
      [] OTHER -> TRUE

\* C36: an event that sonarr_webhook handled while a rebuild was in its
\* transaction is in episode_map once the handler has answered and that
\* rebuild has returned.
C36_EventDuringRebuildKept ==
    (/\ hook.pc = "done" /\ hook.during # 0
     /\ rb.pc = "done" /\ rb.opno = hook.during) =>
        Reflects(db.episode_map, hook.note)

\* the request of the completeness check of handler h fails in this step,
\* every request before it having succeeded
CheckFetchFails(h) ==
    /\ req[h].pc = "check_get"
    /\ req[h].clean
    /\ req'[h] # req[h]
    /\ ~req'[h].clean

\* C37: in Smart mode, when the request of is_series_fully_downloaded or
\* is_season_fully_downloaded fails (a non-200 answer or an exception),
\* the handler answers 200 at once: it sends no DELETE of the series and
\* no PUT of the series, and the catalog is as it was.
C37_FailedCheckIsNotComplete ==
    [][\A h \in Handlers :
         CheckFetchFails(h) =>
             /\ req'[h].pc = "done" /\ req'[h].status = 200
             /\ Len(req'[h].calls) = Len(req[h].calls) + 1
             /\ Mutations(req'[h]) = Mutations(req[h])
             /\ sonarr' = sonarr]_vars

\* Smart mode, a Series notification for an ended series whose monitored
\* episodes all have files: the last request of the handler is that of the
\* check, it failed, and the series is still in the catalog
W_C37 ==
    \E h \in Handlers :
        /\ Answered(h) /\ cfg.series = 3 /\ req[h].note.kind = "Series"
        /\ req[h].series.id \in sonarr.series /\ req[h].series.ended
        /\ AllMonitoredHaveFile(ApiEpisodes(sonarr, req[h].series.id))
        /\ req[h].calls # << >>
        /\ req[h].calls[Len(req[h].calls)] = Call("GET", "episode", req[h].series.id)
        /\ ~req[h].clean
        /\ ~Issued(req[h], "DELETE", "series", req[h].series.id)

\* the series a request of a handler changes: the series itself, or the
\* series of the episode or of the episode file
TargetSeries(c) ==
    CASE c.r = "series" -> c.id
      [] c.r = "episode" /\ c.id \in EpisodeIds -> EpSeries[c.id]
      [] c.r = "episodefile" /\ EpisodeOfFile(c.id) \in EpisodeIds ->
           EpSeries[EpisodeOfFile(c.id)]
      [] OTHER -> 0

\* the row of episode_map that find_series_via_map of r read names a series
\* that was not in the catalog when the notification arrived, and the
\* request for that series has been answered
StaleEntryRead(r) ==
    /\ EpisodeWithProviderId(r)
    /\ r.mapped # 0 /\ r.mapped \notin r.pre.sonarr.series
    /\ Issued(r, "GET", "series/{id}", r.mapped)

\* C38: when episode_map names a series the catalog no longer has,
\* find_series_via_map returns no series, the handler goes on to the title
\* match (or answers 404 when the notification has no title), the series it
\* resolves is another one, and none of its PUTs and DELETEs is for the
\* series of the stale entry.
C38_StaleEntryFallsBackToTitle ==
    \A h \in Handlers :
        LET r == req[h]
        IN  StaleEntryRead(r) =>
              /\ r.viaMap = "none"
              /\ r.series.id # r.mapped
              /\ \/ r.pc = "find_title"
                 \/ Issued(r, "GET", "series", 0)
                 \/ r.pc = "done" /\ r.status = 404 /\ SearchTitle(r.note) = ""
              /\ \A i \in 1..Len(r.calls) :
                    r.calls[i].m \in {"PUT", "DELETE"} =>
                        TargetSeries(r.calls[i]) # r.mapped

\* the entry read was stale, the title match resolved another series and
\* the handler changed an episode of that series
W_C38 ==
    \E h \in Handlers :
        /\ StaleEntryRead(req[h]) /\ Answered(h)
        /\ req[h].series.id # 0
        /\ Mutations(req[h]) # << >>

\* C39: a rebuild called with clear_status that fails at its request for
\* the series list leaves series_status, and every other table, as they
\* were at the call.
C39_FailedFetchKeepsStatus ==
    (rb.pc = "done" /\ rb.clear /\ rb.result = "series_failed") =>
        /\ db.series_status = rb.status0
        /\ TablesOf(db) = rb.before

\* a rebuild called with clear_status on a store with completion rows has
\* failed at the series request, and the rows are there
W_C39 ==
    /\ rb.pc = "done" /\ rb.clear /\ rb.result = "series_failed"
    /\ rb.status0 # {}
    /\ db.series_status = rb.status0

====
